---- MODULE Spec2Model ----
(***************************************************************************)
(* A model of samplesheet_tool: the sequence normalizer, the index         *)
(* resolver (resolve.py), and the pipeline of RunContext.run (context.py). *)
(*                                                                         *)
(* Text is modelled as a sequence of one-character strings, so that        *)
(* strip / upper / lower / replace act on the characters as str does.      *)
(* Python's None and a float NaN cell are the two one-element sequences    *)
(* None and NaN, which are not text (their element is not one character).  *)
(***************************************************************************)
EXTENDS Integers, Sequences, FiniteSets, TLC

VARIABLES
    pc,          \* position of the program
    df,          \* the table handed to resolve_indexes (argument df)
    out,         \* resolve_indexes' working copy of df (local out)
    idx,         \* position of the loop "for idx, r in out.iterrows()"
    i7_lookup,   \* argument i7_lookup: ID -> sequence
    i5_lookup,   \* argument i5_lookup: ID -> sequence
    pair_lookup, \* argument pair_lookup: [given, map]; None is given = FALSE,
                 \* else map is ID -> <<i7 seq, i5 seq>>
    problems,    \* resolve_indexes' local list problems
    consulted,   \* history: the lookups read for each row, {<<row, table>>}
    input,       \* the file at RunContext.input_path: [status, columns, rows]
    i7_maps,     \* RunContext.i7_maps, each spec with the file it names
    i5_maps,     \* RunContext.i5_maps
    pair_maps,   \* RunContext.pair_maps
    dry_run,     \* RunContext.dry_run
    ctx,         \* the state RunContext.run populates: df_input, df_normalized,
                 \* df_resolved, lane_barcode_mismatches, problems
    df_expanded, \* run's local df_expanded
    output,      \* the file at RunContext.output_path
    result,      \* how run ended: [kind, code, err]
    phases,      \* history: the phases of run begun so far, in order
    state        \* the RunState of the lane planner (ui/state.py)

resolve_vars ==
    <<pc, df, out, idx, i7_lookup, i5_lookup, pair_lookup, problems, consulted>>
run_inputs == <<input, i7_maps, i5_maps, pair_maps, dry_run>>
run_vars == <<ctx, df_expanded, output, result>>
vars == <<resolve_vars, run_inputs, run_vars, phases, state>>

(***************************************************************************)
(* The plan of the lane planner as constructed: ui/state.py                *)
(***************************************************************************)
\* The lanes of a plan; the source has range(1, 9).
MaxPlanLanes == 1

\* ui/state.py 44-51: Lane(lane_id), its lists empty and its status OK
Lane(lane_id) ==
    [lane_id |-> lane_id, sample_ids |-> <<>>, project_ids |-> <<>>,
     status |-> "ok", headline |-> "", details |-> <<>>]

\* ui/state.py 54-60: RunState(): no project, none selected, one Lane per id.
\* projects maps a project_id to its Project (the order of the dict is not kept)
RunState ==
    [projects |-> <<>>, selected_project_id |-> <<"None">>,
     lanes |-> [i \in 1..MaxPlanLanes |-> Lane(i)]]

(***************************************************************************)
(* Values and text helpers                                                 *)
(***************************************************************************)
None == <<"None">>
NaN == <<"NaN">>

\* The rows of a table that a resolve run may hold.
MaxRows == 2

SetMin(S) == CHOOSE x \in S : \A y \in S : x <= y
SetMax(S) == CHOOSE x \in S : \A y \in S : x >= y

\* str.isspace for the characters of the model
IsSpace(c) == c \in {" ", "\t", "\n"}

\* str.strip(): leading and trailing whitespace removed
Strip(s) ==
    LET keep == {i \in 1..Len(s) : ~IsSpace(s[i])}
    IN  IF keep = {} THEN <<>> ELSE SubSeq(s, SetMin(keep), SetMax(keep))

UpperChar(c) ==
    CASE c = "a" -> "A" [] c = "c" -> "C" [] c = "g" -> "G" [] c = "t" -> "T"
      [] c = "n" -> "N" [] c = "o" -> "O" [] c = "e" -> "E" [] c = "b" -> "B"
      [] OTHER -> c

LowerChar(c) ==
    CASE c = "A" -> "a" [] c = "C" -> "c" [] c = "G" -> "g" [] c = "T" -> "t"
      [] c = "N" -> "n" [] c = "O" -> "o" [] c = "E" -> "e" [] c = "B" -> "b"
      [] OTHER -> c

\* str.upper() and str.lower()
Upper(s) == [i \in 1..Len(s) |-> UpperChar(s[i])]
Lower(s) == [i \in 1..Len(s) |-> LowerChar(s[i])]

\* str.replace(" ", ""): only the blank is removed, not other whitespace
RemoveBlanks(s) == SelectSeq(s, LAMBDA c : c # " ")

\* str(x) of a cell value
ToStr(x) ==
    IF x = None THEN <<"N", "o", "n", "e">>
    ELSE IF x = NaN THEN <<"n", "a", "n">>
    ELSE x

\* utils._is_missing
is_missing(x) == x = None \/ x = NaN

MissingTokens ==
    {<<>>, <<"N", "A", "N">>, <<"N", "A">>, <<"N", "O", "N", "E">>}

\* utils.normalize_seq with the blanks removed after the test for the
\* missing tokens
normalize_seqMutCheckFirst(s) ==
    IF is_missing(s) THEN None
    ELSE LET v == Upper(Strip(ToStr(s)))
         IN  IF v \in MissingTokens THEN None ELSE RemoveBlanks(v)

\* utils.normalize_seq
normalize_seq(s) ==
    IF is_missing(s) THEN None
    ELSE LET v == RemoveBlanks(Upper(Strip(ToStr(s))))
         IN  IF v \in MissingTokens THEN None ELSE v

\* Python truthiness of a cell: None and "" are false
Truthy(x) == x # None /\ x # <<>>

\* Truthiness of an Optional[Dict]: None and the empty dict are false
DictTruthy(d) == d.given /\ DOMAIN d.map # {}

\* The characters of the model in code point order, for sorted() of text
Ascii ==
    <<"\t", "\n", " ", "#", "+", ",", "-", ".",
      "0", "1", "2", "3", "4", "5", "6", "7", "8", "9",
      "A", "B", "C", "D", "E", "G", "N", "O", "P", "Q", "S", "T",
      "_", "a", "b", "c", "e", "g", "n", "o", "t">>
Ord(c) == CHOOSE i \in 1..Len(Ascii) : Ascii[i] = c

\* a < b for str: the first difference decides, a proper prefix is smaller
StrLess(a, b) ==
    \E k \in 1..(Len(b)) :
        /\ \A j \in 1..(k - 1) : j <= Len(a) /\ a[j] = b[j]
        /\ \/ k = Len(a) + 1
           \/ k <= Len(a) /\ Ord(a[k]) < Ord(b[k])

RECURSIVE SortedStrs(_)
\* sorted(S) for a set of str
SortedStrs(S) ==
    IF S = {} THEN <<>>
    ELSE LET m == CHOOSE x \in S : \A y \in S \ {x} : StrLess(x, y)
         IN  <<m>> \o SortedStrs(S \ {m})

RECURSIVE SortedInts(_)
\* sorted(S) for a set of int
SortedInts(S) ==
    IF S = {} THEN <<>>
    ELSE <<SetMin(S)>> \o SortedInts(S \ {SetMin(S)})

\* the concatenation of a sequence of sequences
RECURSIVE Flatten(_)
Flatten(ss) == IF ss = <<>> THEN <<>> ELSE Head(ss) \o Flatten(Tail(ss))

\* Problem.lane when no lane is given (lanes are 1..8)
NoLane == 0

\* utils.Problem. Of the message text the model keeps what it lists: listed is
\* the sequence of names (sample_ids, project_ids) the message enumerates.
\* row is a history field: the position of the table row the Problem was
\* recorded for, 0 when it is not about one row.
Problem(level, code, lane, sample_id, listed, row) ==
    [level |-> level, code |-> code, lane |-> lane, sample_id |-> sample_id,
     listed |-> listed, row |-> row]

\* A function that returns or raises: [ok |-> TRUE, v |-> value] or
\* [ok |-> FALSE, err |-> the error]
Ok(v) == [ok |-> TRUE, v |-> v]
Raise(e) == [ok |-> FALSE, err |-> e]

(***************************************************************************)
(* io_normalize.py                                                         *)
(***************************************************************************)
\* config.REQUIRED_CANONICAL_COLS
REQUIRED_CANONICAL_COLS ==
    {"lane", "sample_id", "project_id", "i7", "i5", "i7_id", "i5_id"}

\* io_normalize.check_required_columns: the columns of a table are a set
check_required_columns(columns) ==
    IF REQUIRED_CANONICAL_COLS \ columns # {}
    THEN Raise("MissingColumns") ELSE Ok(TRUE)

\* io_normalize._norm_id
norm_id(x) ==
    IF is_missing(x) THEN <<>>
    ELSE LET v == Strip(ToStr(x))
         IN  IF Lower(v) = <<"n", "a", "n">> THEN <<>> ELSE v

\* config.LANE_RANGE as the regular expression spells it: the digits 1-8
LaneDigits == {"1", "2", "3", "4", "5", "6", "7", "8"}
\* the separators [,\s] of the regular expressions
IsLaneSep(c) == c = "," \/ IsSpace(c)

DigitVal(c) ==
    CASE c = "1" -> 1 [] c = "2" -> 2 [] c = "3" -> 3 [] c = "4" -> 4
      [] c = "5" -> 5 [] c = "6" -> 6 [] c = "7" -> 7 [] c = "8" -> 8
      [] c = "9" -> 9 [] OTHER -> 0

\* expand_lanes, line 83: s matches ^[1-8](?:[,\s]+[1-8])*$, that is: it starts
\* and ends with a digit 1-8, holds only such digits and separators, and no two
\* digits are adjacent
LaneFormatOk(s) ==
    /\ Len(s) >= 1
    /\ s[1] \in LaneDigits
    /\ s[Len(s)] \in LaneDigits
    /\ \A i \in 1..Len(s) : s[i] \in LaneDigits \/ IsLaneSep(s[i])
    /\ \A i \in 1..(Len(s) - 1) : ~(s[i] \in LaneDigits /\ s[i + 1] \in LaneDigits)

\* line 90 with the lanes of a cell in increasing order
LaneSplitMutSorted(s) ==
    LET xs == SelectSeq(s, LAMBDA c : ~IsLaneSep(c))
        at == SortedInts({DigitVal(xs[i]) : i \in 1..Len(xs)})
    IN  IF Len(at) # Len(xs) THEN xs
        ELSE [j \in 1..Len(at) |-> xs[CHOOSE i \in 1..Len(xs) : DigitVal(xs[i]) = at[j]]]

\* expand_lanes, line 90: s.str.split(r"[,\s]+") of a cell that passed the
\* format check: its digits in textual order
LaneSplit(s) == SelectSeq(s, LAMBDA c : ~IsLaneSep(c))

\* the cell text expand_lanes works on (line 72)
LaneText(r) == Strip(ToStr(r.lane))

\* line 103: len(xs) != len(set(xs))
HasRepeat(xs) == Cardinality({xs[i] : i \in 1..Len(xs)}) # Len(xs)

RECURSIVE Explode(_, _)
\* lines 92-97: one copy of each row per listed lane, in row order and, within a
\* row, in the order of the cell; the lane an integer
Explode(rows, k) ==
    IF k > Len(rows) THEN <<>>
    ELSE LET xs == LaneSplit(LaneText(rows[k]))
         IN  [j \in 1..Len(xs) |-> [rows[k] EXCEPT !.lane = DigitVal(xs[j])]]
             \o Explode(rows, k + 1)

\* expand_lanes with the format check (lines 79-86) before the check for
\* empty cells (lines 74-77)
expand_lanesMutFormatFirst(rows) ==
    IF \E k \in 1..Len(rows) : ~LaneFormatOk(LaneText(rows[k]))
    THEN Raise("LaneFormatInvalid")
    ELSE IF \E k \in 1..Len(rows) : HasRepeat(LaneSplit(LaneText(rows[k])))
    THEN Raise("LaneDuplicateInCell")
    ELSE Ok(Explode(rows, 1))

\* io_normalize.expand_lanes (lines 67-108) on the rows of a table that has
\* the lane column
expand_lanes(rows) ==
    IF \E k \in 1..Len(rows) :
           LaneText(rows[k]) = <<>> \/ Lower(LaneText(rows[k])) = <<"n", "a", "n">>
    THEN Raise("LaneEmpty")
    ELSE IF \E k \in 1..Len(rows) : ~LaneFormatOk(LaneText(rows[k]))
    THEN Raise("LaneFormatInvalid")
    ELSE IF \E k \in 1..Len(rows) : HasRepeat(LaneSplit(LaneText(rows[k])))
    THEN Raise("LaneDuplicateInCell")
    ELSE Ok(Explode(rows, 1))

\* io_normalize.normalize_minimal (lines 38-64) on expanded rows
normalize_minimal(rows) ==
    [k \in 1..Len(rows) |->
        [lane |-> rows[k].lane,
         sample_id |-> Strip(ToStr(rows[k].sample_id)),
         project_id |-> Strip(ToStr(rows[k].project_id)),
         i7_id |-> norm_id(rows[k].i7_id),
         i5_id |-> norm_id(rows[k].i5_id),
         i7 |-> normalize_seq(rows[k].i7),
         i5 |-> normalize_seq(rows[k].i5)]]

(***************************************************************************)
(* indexes.py                                                              *)
(***************************************************************************)
\* A kit file is [exists, columns, rows]: rows are [id, seq] for a single-index
\* table and [id, i7, i5] for a paired one, the cells of the columns the map
\* names; columns says whether the file has those columns.

\* the IDs / sequences that occur more than once in a column:
\* Series.duplicated(keep=False)
Duplicated(col) ==
    {col[i] : i \in {i \in 1..Len(col) : \E j \in 1..Len(col) : j # i /\ col[j] = col[i]}}

\* lines 31-37: the canonical columns, then the rows with a blank ID dropped
SingleCanonical(rows) ==
    SelectSeq([k \in 1..Len(rows) |->
                  [Index_ID |-> Strip(ToStr(rows[k].id)),
                   Index_Seq |-> normalize_seq(rows[k].seq)]],
              LAMBDA e : Len(e.Index_ID) > 0)

\* lines 39-66: the checks on the canonical table
CheckedSingle(t) ==
    IF \E k \in 1..Len(t) : t[k].Index_Seq = None
    THEN Raise("MissingSequence")
    ELSE IF Duplicated([k \in 1..Len(t) |-> t[k].Index_ID]) # {}
    THEN Raise("DuplicateId")
    ELSE IF Duplicated([k \in 1..Len(t) |-> t[k].Index_Seq]) # {}
    THEN Raise("DuplicateSequence")
    ELSE Ok(t)

\* indexes.load_single_index_table (lines 14-66)
load_single_index_table(file) ==
    IF ~file.exists THEN Raise("FileNotFound")
    ELSE IF ~file.columns THEN Raise("TableMissingColumns")
    ELSE CheckedSingle(SingleCanonical(file.rows))

\* indexes.build_single_lookup (lines 69-71); a later row of the same ID would
\* overwrite an earlier one
build_single_lookup(t) ==
    [id \in {t[k].Index_ID : k \in 1..Len(t)} |->
        t[SetMax({k \in 1..Len(t) : t[k].Index_ID = id})].Index_Seq]

\* lines 92-99 of load_paired_index_table
PairCanonical(rows) ==
    SelectSeq([k \in 1..Len(rows) |->
                  [Pair_ID |-> Strip(ToStr(rows[k].id)),
                   Index_I7 |-> normalize_seq(rows[k].i7),
                   Index_I5 |-> normalize_seq(rows[k].i5)]],
              LAMBDA e : Len(e.Pair_ID) > 0)

\* lines 101-115: the checks on the canonical table
CheckedPair(t) ==
    IF \E k \in 1..Len(t) : t[k].Index_I7 = None \/ t[k].Index_I5 = None
    THEN Raise("MissingSequence")
    ELSE IF Duplicated([k \in 1..Len(t) |-> t[k].Pair_ID]) # {}
    THEN Raise("DuplicateId")
    ELSE Ok(t)

\* indexes.load_paired_index_table (lines 74-115)
load_paired_index_table(file) ==
    IF ~file.exists THEN Raise("FileNotFound")
    ELSE IF ~file.columns THEN Raise("TableMissingColumns")
    ELSE CheckedPair(PairCanonical(file.rows))

\* indexes.build_pair_lookup (lines 118-120)
build_pair_lookup(t) ==
    [id \in {t[k].Pair_ID : k \in 1..Len(t)} |->
        LET e == t[SetMax({k \in 1..Len(t) : t[k].Pair_ID = id})]
        IN  <<e.Index_I7, e.Index_I5>>]

\* "merged[k] = v" for every item of lk: the entries of lk over those of merged
DictUpdate(merged, lk) ==
    [k \in DOMAIN merged \cup DOMAIN lk |-> IF k \in DOMAIN lk THEN lk[k] ELSE merged[k]]

RECURSIVE MergeFrom(_, _, _)
\* the loop of merge_single_lookups / merge_pair_lookups from lookup k on
MergeFrom(lookups, k, merged) ==
    IF k > Len(lookups) THEN Ok(merged)
    ELSE IF \E id \in DOMAIN lookups[k] :
                id \in DOMAIN merged /\ merged[id] # lookups[k][id]
    THEN Raise("IdCollision")
    ELSE MergeFrom(lookups, k + 1, DictUpdate(merged, lookups[k]))

RECURSIVE UpdateFrom(_, _, _)
\* "merged[k] = v" for the items of every lookup from lookup k on
UpdateFrom(lookups, k, merged) ==
    IF k > Len(lookups) THEN merged
    ELSE UpdateFrom(lookups, k + 1, DictUpdate(merged, lookups[k]))

\* the merge without the collision check: the last source of an ID wins
merge_lookupsMutLastWins(lookups) == Ok(UpdateFrom(lookups, 1, <<>>))

\* the merge with "if k in merged" for "if k in merged and merged[k] != v":
\* an ID of two sources is a collision whatever its values
merge_lookupsMutAnyRepeat(lookups) ==
    IF \E a, b \in 1..Len(lookups) : a # b /\ DOMAIN lookups[a] \cap DOMAIN lookups[b] # {}
    THEN Raise("IdCollision")
    ELSE MergeFrom(lookups, 1, <<>>)

\* indexes.merge_single_lookups (lines 122-129) and merge_pair_lookups
\* (lines 132-139): the same loop over dicts of sequences or of pairs
merge_lookups(lookups) == MergeFrom(lookups, 1, <<>>)

(***************************************************************************)
(* resolve.py: resolve_indexes                                             *)
(***************************************************************************)

\* resolve.py 54-60: the sequence columns normalized, the ID columns as stripped text
NormalizeColumns(t) ==
    [i \in 1..Len(t) |->
        [t[i] EXCEPT !.i7 = normalize_seq(@), !.i5 = normalize_seq(@),
                     !.i7_id = Strip(ToStr(@)), !.i5_id = Strip(ToStr(@))]]

\* resolve.py 70-75: the row's ID as the loop body sees it, "" when blank or "nan"
RowId(x) ==
    LET v == Strip(ToStr(x))
    IN  IF v = <<>> \/ Lower(v) = <<"n", "a", "n">> THEN <<>> ELSE v

\* resolve.py 64: sid
RowSid(r) == Strip(ToStr(r.sample_id))

\* resolve.py 63-64 and the Problem(...) calls of the loop: an ERROR tagged
\* with the row's lane and sample_id
RowProblem(code, r, i) == Problem("ERROR", code, r.lane, RowSid(r), <<>>, i)

\* resolve.py 77-79: Case 1, "if i7_seq and i5_seq"
SequencesPresent(r) == Truthy(r.i7) /\ Truthy(r.i5)

\* resolve.py 83: Case 2 applies, "if i7_id and i5_id and (i7_id == i5_id)"
PairedIds(r) ==
    /\ RowId(r.i7_id) # <<>>
    /\ RowId(r.i5_id) # <<>>
    /\ RowId(r.i7_id) = RowId(r.i5_id)

\* A step of the loop body yields the row, the Problems it appends and the
\* lookups it read: [row, problems, consulted].
Step(r, ps, cs) == [row |-> r, problems |-> ps, consulted |-> cs]

\* Mutant: the two sequences of the pair entry written to the wrong columns
ResolvePairedMutSwapped(r, i, lp) ==
    LET id == RowId(r.i7_id)
    IN  IF ~DictTruthy(lp)
        THEN Step(r, <<RowProblem("PAIR_TABLE_NOT_PROVIDED", r, i)>>, {})
        ELSE IF id \notin DOMAIN lp.map
        THEN Step(r, <<RowProblem("PAIR_ID_NOT_FOUND", r, i)>>, {<<i, "pair">>})
        ELSE Step([r EXCEPT !.i7 = normalize_seq(lp.map[id][2]),
                            !.i5 = normalize_seq(lp.map[id][1])],
                  <<>>, {<<i, "pair">>})

\* resolve.py 84-106: Case 2, paired lookup
ResolvePaired(r, i, lp) ==
    LET id == RowId(r.i7_id)
    IN  IF ~DictTruthy(lp)
        THEN Step(r, <<RowProblem("PAIR_TABLE_NOT_PROVIDED", r, i)>>, {})
        ELSE IF id \notin DOMAIN lp.map
        THEN Step(r, <<RowProblem("PAIR_ID_NOT_FOUND", r, i)>>, {<<i, "pair">>})
        ELSE Step([r EXCEPT !.i7 = normalize_seq(lp.map[id][1]),
                            !.i5 = normalize_seq(lp.map[id][2])],
                  <<>>, {<<i, "pair">>})

\* Mutant: the guard "if not i7_seq" forgotten, i7 looked up for every row
ResolveI7MutAlwaysLookup(r, i, l7) ==
    LET id == RowId(r.i7_id)
    IN  IF id = <<>>
        THEN Step(r, <<RowProblem("I7_MISSING", r, i)>>, {})
        ELSE IF id \notin DOMAIN l7
        THEN Step(r, <<RowProblem("I7_ID_NOT_FOUND", r, i)>>,
                  {<<i, "i7">>})
        ELSE Step([r EXCEPT !.i7 = normalize_seq(l7[id])], <<>>, {<<i, "i7">>})

\* resolve.py 110-128: Case 3, the i7 side
ResolveI7(r, i, l7) ==
    LET id == RowId(r.i7_id)
    IN  IF Truthy(r.i7) THEN Step(r, <<>>, {})
        ELSE IF id = <<>>
        THEN Step(r, <<RowProblem("I7_MISSING", r, i)>>, {})
        ELSE IF id \notin DOMAIN l7
        THEN Step(r, <<RowProblem("I7_ID_NOT_FOUND", r, i)>>,
                  {<<i, "i7">>})
        ELSE Step([r EXCEPT !.i7 = normalize_seq(l7[id])], <<>>, {<<i, "i7">>})

\* Mutant: the guard "and i5_id" forgotten, a blank i5_id is looked up
ResolveI5MutBlankIdLookedUp(r, i, l5) ==
    LET id == RowId(r.i5_id)
    IN  IF Truthy(r.i5) THEN Step(r, <<>>, {})
        ELSE IF id \notin DOMAIN l5
        THEN Step(r, <<RowProblem("I5_ID_NOT_FOUND", r, i)>>,
                  {<<i, "i5">>})
        ELSE Step([r EXCEPT !.i5 = normalize_seq(l5[id])], <<>>, {<<i, "i5">>})

\* resolve.py 129-140: Case 3, the i5 side (r is the row as the loop read it)
ResolveI5(r, i, l5) ==
    LET id == RowId(r.i5_id)
    IN  IF Truthy(r.i5) \/ id = <<>> THEN Step(r, <<>>, {})
        ELSE IF id \notin DOMAIN l5
        THEN Step(r, <<RowProblem("I5_ID_NOT_FOUND", r, i)>>,
                  {<<i, "i5">>})
        ELSE Step([r EXCEPT !.i5 = normalize_seq(l5[id])], <<>>, {<<i, "i5">>})

\* resolve.py 142-150: the final requirement, read from the table after the attempts
FinalCheck(r, i) ==
    IF ~Truthy(r.i7)
    THEN <<RowProblem("I7_SEQUENCE_NOT_RESOLVED", r, i)>>
    ELSE <<>>

\* Mutant: a failed i5 lookup ends the row ("continue"), as the paired
\* failures do, so the final requirement is not checked
ResolveIndependentMutI5Continue(r, i, l7, l5) ==
    LET a == ResolveI7(r, i, l7)
        b == ResolveI5(r, i, l5)
        r2 == [r EXCEPT !.i7 = a.row.i7, !.i5 = b.row.i5]
    IN  IF b.problems # <<>>
        THEN Step(r2, a.problems \o b.problems, a.consulted \cup b.consulted)
        ELSE Step(r2, a.problems \o b.problems \o FinalCheck(r2, i),
                  a.consulted \cup b.consulted)

\* resolve.py 108-150: Case 3, independent resolution, then the final requirement
ResolveIndependent(r, i, l7, l5) ==
    LET a == ResolveI7(r, i, l7)
        b == ResolveI5(r, i, l5)
        r2 == [r EXCEPT !.i7 = a.row.i7, !.i5 = b.row.i5]
    IN  Step(r2, a.problems \o b.problems \o FinalCheck(r2, i),
             a.consulted \cup b.consulted)

\* Mutant: Case 2 tested before Case 1
resolve_rowMutPairedFirst(r, i, l7, l5, lp) ==
    IF PairedIds(r) THEN ResolvePaired(r, i, lp)
    ELSE IF SequencesPresent(r) THEN Step(r, <<>>, {})
    ELSE ResolveIndependent(r, i, l7, l5)

\* resolve.py 62-150: the body of the loop for one row
resolve_row(r, i, l7, l5, lp) ==
    IF SequencesPresent(r) THEN Step(r, <<>>, {})
    ELSE IF PairedIds(r) THEN ResolvePaired(r, i, lp)
    ELSE ResolveIndependent(r, i, l7, l5)

(***************************************************************************)
(* validate.py                                                             *)
(***************************************************************************)
\* config.py 9, 13-15
DEFAULT_BARCODE_MISMATCHES == 1
HAMMING_WARN_TIGHTEN == 1
HAMMING_WARN == 2
HAMMING_OK_MIN == 3

\* an Optional[int] distance that is None
NoDist == -1

\* utils.hamming (lines 35-42): None when a side is missing after
\* normalization or the lengths differ
Distance(x, y) ==
    IF x = None \/ y = None THEN NoDist
    ELSE IF Len(x) # Len(y) THEN NoDist
    ELSE Cardinality({i \in 1..Len(x) : x[i] # y[i]})

hamming(a, b) == Distance(normalize_seq(a), normalize_seq(b))

\* "m = d if m is None else min(m, d)" over the candidates that are not None
MinDist(ds) == IF ds \ {NoDist} = {} THEN NoDist ELSE SetMin(ds \ {NoDist})

\* validate._trim_to_lane_min (lines 27-33)
trim_to_lane_min(seqs) ==
    IF seqs = <<>> THEN <<>>
    ELSE LET min_len == SetMin({Len(seqs[i]) : i \in 1..Len(seqs)})
         IN  [i \in 1..Len(seqs) |-> SubSeq(seqs[i], 1, min_len)]

\* validate._min_pairwise_hamming over the rows, without "sorted(set(seqs))"
min_pairwise_hammingMutAllRows(seqs) ==
    IF Len(seqs) < 2 THEN NoDist
    ELSE MinDist({hamming(seqs[p[1]], seqs[p[2]]) :
                     p \in {q \in (1..Len(seqs)) \X (1..Len(seqs)) : q[1] < q[2]}})

\* validate._min_pairwise_hamming (lines 36-49)
min_pairwise_hamming(seqs) ==
    LET uniq == {seqs[i] : i \in 1..Len(seqs)}
    IN  IF Cardinality(uniq) < 2 THEN NoDist
        ELSE MinDist({hamming(p[1], p[2]) : p \in {q \in uniq \X uniq : q[1] # q[2]}})

\* validate._min_hamming_between_sets (lines 52-66)
min_hamming_between_sets(a, b) ==
    IF a = <<>> \/ b = <<>> THEN NoDist
    ELSE MinDist({hamming(a[i], b[j]) : i \in 1..Len(a), j \in 1..Len(b)})

\* lines 91-93 with the smaller of the two distances taken
EffectiveDistanceMutMin(d7, d5) ==
    IF d7 = NoDist \/ d5 = NoDist THEN NoDist
    ELSE IF d7 <= d5 THEN d7 ELSE d5

\* lines 91-93: max(d7, d5), or nothing when a distance is None
EffectiveDistance(d7, d5) ==
    IF d7 = NoDist \/ d5 = NoDist THEN NoDist
    ELSE IF d7 >= d5 THEN d7 ELSE d5

\* validate._min_effective_pair_distance (lines 69-95)
min_effective_pair_distance(i7_by_row, i5_by_row) ==
    LET n == Len(i7_by_row)
        deff(i, j) ==
            IF \/ i7_by_row[i] = None \/ i7_by_row[j] = None
               \/ i5_by_row[i] = None \/ i5_by_row[j] = None
            THEN NoDist
            ELSE EffectiveDistance(hamming(i7_by_row[i], i7_by_row[j]),
                                   hamming(i5_by_row[i], i5_by_row[j]))
    IN  IF n < 2 THEN NoDist
        ELSE MinDist({deff(p[1], p[2]) : p \in {q \in (1..n) \X (1..n) : q[1] < q[2]}})

\* config.SAMPLE_ID_ALLOWED, ^[A-Za-z0-9._-]+$, on the characters of the model
SampleIdChars ==
    {"A", "B", "C", "D", "E", "G", "N", "O", "P", "Q", "S", "T",
     "a", "b", "c", "e", "g", "n", "o", "t",
     "0", "1", "2", "3", "4", "5", "6", "7", "8", "9", ".", "_", "-"}

\* pat.match(x): "$" also matches before one trailing newline
SampleIdMatches(x) ==
    LET body == IF Len(x) >= 1 /\ x[Len(x)] = "\n" THEN SubSeq(x, 1, Len(x) - 1) ELSE x
    IN  Len(body) >= 1 /\ \A i \in 1..Len(body) : body[i] \in SampleIdChars

\* the lanes of a table in the order of df.groupby(lane_col)
LanesOf(t) == SortedInts({t[k].lane : k \in 1..Len(t)})
\* the rows of a lane, in table order
RowsOfLane(t, lane) == SelectSeq(t, LAMBDA r : r.lane = lane)

\* validate_sample_ids, lines 124-136: one ERROR per row whose sample_id does
\* not match
InvalidIdProblems(t) ==
    LET bad == SelectSeq(t, LAMBDA r : ~SampleIdMatches(ToStr(r.sample_id)))
    IN  [j \in 1..Len(bad) |->
            Problem("ERROR", "SAMPLE_ID_INVALID", bad[j].lane,
                    ToStr(bad[j].sample_id), <<>>, 0)]

\* validate_sample_ids, lines 139-151, without "sorted(set(...))": one ERROR
\* per row of a sample_id that occurs more than once in the lane
DuplicateIdProblemsMutPerRow(td, lane) ==
    LET ids == [j \in 1..Len(td) |-> ToStr(td[j].sample_id)]
        dup == SelectSeq(ids, LAMBDA x : x \in Duplicated(ids))
    IN  [j \in 1..Len(dup) |->
            Problem("ERROR", "SAMPLE_ID_DUPLICATE_IN_LANE", lane, dup[j], <<>>, 0)]

\* validate_sample_ids, lines 139-151, for one lane: one ERROR per sample_id
\* that occurs more than once in the lane, in sorted order
DuplicateIdProblems(td, lane) ==
    LET dup == SortedStrs(Duplicated([j \in 1..Len(td) |-> ToStr(td[j].sample_id)]))
    IN  [j \in 1..Len(dup) |->
            Problem("ERROR", "SAMPLE_ID_DUPLICATE_IN_LANE", lane, dup[j], <<>>, 0)]

\* the project_ids a sample_id occurs with anywhere in the table
ProjectsOf(t, sid) ==
    {ToStr(t[k].project_id) : k \in {k \in 1..Len(t) : ToStr(t[k].sample_id) = sid}}

\* validate_sample_ids, lines 153-174, with the project_ids counted lane by
\* lane
CollisionProblemsMutPerLane(t) ==
    LET sids == {ToStr(t[k].sample_id) : k \in 1..Len(t)}
        collided ==
            SortedStrs({sid \in sids :
                \E lane \in {t[k].lane : k \in 1..Len(t)} :
                    Cardinality(ProjectsOf(RowsOfLane(t, lane), sid)) > 1})
    IN  [j \in 1..Len(collided) |->
            Problem("ERROR", "SAMPLE_ID_PROJECT_COLLISION", NoLane, collided[j],
                    SortedStrs(ProjectsOf(t, collided[j])), 0)]

\* validate_sample_ids, lines 153-174: one ERROR per sample_id with more than
\* one project_id, listing its projects sorted
CollisionProblems(t) ==
    LET sids == {ToStr(t[k].sample_id) : k \in 1..Len(t)}
        collided == SortedStrs({sid \in sids : Cardinality(ProjectsOf(t, sid)) > 1})
    IN  [j \in 1..Len(collided) |->
            Problem("ERROR", "SAMPLE_ID_PROJECT_COLLISION", NoLane, collided[j],
                    SortedStrs(ProjectsOf(t, collided[j])), 0)]

\* validate.validate_sample_ids (lines 107-176)
validate_sample_ids(t) ==
    LET lanes == LanesOf(t)
    IN  InvalidIdProblems(t)
        \o Flatten([j \in 1..Len(lanes) |->
                       DuplicateIdProblems(RowsOfLane(t, lanes[j]), lanes[j])])
        \o CollisionProblems(t)

\* what validate_indexes_per_lane does for one lane: the Problems it appends
\* and the lane's entry of lane_mm
LaneResult(ps, mm) == [problems |-> ps, mm |-> mm]

\* a lane-level Problem: no sample_id, the message lists sample_ids
LaneProblem(level, code, lane, listed) == Problem(level, code, lane, None, listed, 0)

\* the sample_ids of rows (positions in td), as the messages list them
Sids(td, rows) == [j \in 1..Len(rows) |-> ToStr(td[rows[j]].sample_id)]

\* lines 244-267 with the i7 alone as the text compared
DualDuplicateProblemsMutI7Only(td, lane, i7_trim, i5_trim, dual_idxs) ==
    LET pair(k) == i7_trim[k]
        dual_pairs == [j \in 1..Len(dual_idxs) |-> pair(dual_idxs[j])]
        dups == SortedStrs(Duplicated(dual_pairs))
    IN  [j \in 1..Len(dups) |->
            LaneProblem("ERROR", "INDEX_DUPLICATE_IN_LANE", lane,
                        Sids(td, SelectSeq(dual_idxs, LAMBDA k : pair(k) = dups[j])))]

\* lines 244-267: one ERROR per trimmed (i7, i5) pair that two or more dual
\* rows share, in the sorted order of the pair text
DualDuplicateProblems(td, lane, i7_trim, i5_trim, dual_idxs) ==
    LET pair(k) == i7_trim[k] \o <<"+">> \o i5_trim[k]
        dual_pairs == [j \in 1..Len(dual_idxs) |-> pair(dual_idxs[j])]
        dups == SortedStrs(Duplicated(dual_pairs))
    IN  [j \in 1..Len(dups) |->
            LaneProblem("ERROR", "INDEX_DUPLICATE_IN_LANE", lane,
                        Sids(td, SelectSeq(dual_idxs, LAMBDA k : pair(k) = dups[j])))]

\* lines 271-290 with i7_to_rows built from the single-index rows alone
SingleDuplicateProblemsMutSinglesOnly(td, lane, i7_trim, single_idxs) ==
    LET sharing(k) == SelectSeq(single_idxs, LAMBDA j : i7_trim[j] = i7_trim[k])
        hit == SelectSeq(single_idxs, LAMBDA k : Len(sharing(k)) > 1)
    IN  [j \in 1..Len(hit) |->
            LaneProblem("ERROR", "SINGLE_I7_DUPLICATE_IN_LANE", lane,
                        Sids(td, sharing(hit[j])))]

\* lines 271-290: one ERROR per single-index row whose trimmed i7 occurs more
\* than once in the lane
SingleDuplicateProblems(td, lane, i7_trim, single_idxs) ==
    LET sharing(k) == SelectSeq([j \in 1..Len(td) |-> j], LAMBDA j : i7_trim[j] = i7_trim[k])
        hit == SelectSeq(single_idxs, LAMBDA k : Len(sharing(k)) > 1)
    IN  [j \in 1..Len(hit) |->
            LaneProblem("ERROR", "SINGLE_I7_DUPLICATE_IN_LANE", lane,
                        Sids(td, sharing(hit[j])))]

\* lines 301-334 without the last branch, "elif i7_min_focus < HAMMING_OK_MIN"
MixedDecisionMutNoRest(lane, m) ==
    IF m = NoDist THEN LaneResult(<<>>, DEFAULT_BARCODE_MISMATCHES)
    ELSE IF m = HAMMING_WARN_TIGHTEN
    THEN LaneResult(<<LaneProblem("WARN", "MIXED_LANE_I7_TOO_SIMILAR_HAMMING_1",
                                  lane, <<>>)>>, 0)
    ELSE IF m = HAMMING_WARN
    THEN LaneResult(<<LaneProblem("WARN", "MIXED_LANE_I7_SIMILAR_HAMMING_2",
                                  lane, <<>>)>>, 0)
    ELSE LaneResult(<<>>, DEFAULT_BARCODE_MISMATCHES)

\* lines 301-334: what a mixed lane gets for the distance m
MixedDecision(lane, m) ==
    IF m = NoDist THEN LaneResult(<<>>, DEFAULT_BARCODE_MISMATCHES)
    ELSE IF m = HAMMING_WARN_TIGHTEN
    THEN LaneResult(<<LaneProblem("WARN", "MIXED_LANE_I7_TOO_SIMILAR_HAMMING_1",
                                  lane, <<>>)>>, 0)
    ELSE IF m = HAMMING_WARN
    THEN LaneResult(<<LaneProblem("WARN", "MIXED_LANE_I7_SIMILAR_HAMMING_2",
                                  lane, <<>>)>>, 0)
    ELSE IF m < HAMMING_OK_MIN
    THEN LaneResult(<<LaneProblem("WARN", "MIXED_LANE_I7_TOO_SIMILAR", lane, <<>>)>>, 0)
    ELSE LaneResult(<<>>, DEFAULT_BARCODE_MISMATCHES)

\* lines 296-335: the mismatch policy of a mixed lane
MixedPolicy(lane, i7_trim, single_idxs, dual_idxs) ==
    MixedDecision(lane,
        min_hamming_between_sets([j \in 1..Len(single_idxs) |-> i7_trim[single_idxs[j]]],
                                 [j \in 1..Len(dual_idxs) |-> i7_trim[dual_idxs[j]]]))

\* lines 344-366: what a dual-only lane gets for the effective distance d
DualDecision(lane, d) ==
    IF d = NoDist THEN LaneResult(<<>>, DEFAULT_BARCODE_MISMATCHES)
    ELSE IF d = HAMMING_WARN_TIGHTEN
    THEN LaneResult(<<LaneProblem("WARN", "DUAL_LANE_PAIR_TOO_SIMILAR_HAMMING_1",
                                  lane, <<>>)>>, 0)
    ELSE IF d = HAMMING_WARN
    THEN LaneResult(<<LaneProblem("WARN", "DUAL_LANE_PAIR_SIMILAR_HAMMING_2",
                                  lane, <<>>)>>, 0)
    ELSE LaneResult(<<>>, DEFAULT_BARCODE_MISMATCHES)

\* lines 339-367: the mismatch policy of a dual-only lane
DualPolicy(lane, i7_trim, i5_trim, dual_idxs) ==
    DualDecision(lane,
        min_effective_pair_distance([j \in 1..Len(dual_idxs) |-> i7_trim[dual_idxs[j]]],
                                    [j \in 1..Len(dual_idxs) |-> i5_trim[dual_idxs[j]]]))

\* lines 372-394: what a single-only lane gets for the distance m
SingleDecision(lane, m) ==
    IF m = NoDist THEN LaneResult(<<>>, DEFAULT_BARCODE_MISMATCHES)
    ELSE IF m = HAMMING_WARN_TIGHTEN
    THEN LaneResult(<<LaneProblem("WARN", "SINGLE_LANE_I7_TOO_SIMILAR_HAMMING_1",
                                  lane, <<>>)>>, 0)
    ELSE IF m = HAMMING_WARN
    THEN LaneResult(<<LaneProblem("WARN", "SINGLE_LANE_I7_SIMILAR_HAMMING_2",
                                  lane, <<>>)>>, 0)
    ELSE LaneResult(<<>>, DEFAULT_BARCODE_MISMATCHES)

\* lines 371-394: the mismatch policy of a single-only lane
SinglePolicy(lane, i7_trim) ==
    SingleDecision(lane, min_pairwise_hamming(trim_to_lane_min(i7_trim)))

\* the Problems of the uniqueness checks, then what the policy adds
LaneOutcome(ps, policy) == LaneResult(ps \o policy.problems, policy.mm)

\* lines 243-394 for a lane whose rows all have an i7: the uniqueness checks
\* and the mismatch policy on the trimmed sequences
LaneChecks(td, lane, i7_trim, i5_trim, single_idxs, dual_idxs) ==
    LaneOutcome(
        (IF Len(dual_idxs) > 0
         THEN DualDuplicateProblems(td, lane, i7_trim, i5_trim, dual_idxs) ELSE <<>>)
        \o (IF Len(single_idxs) > 0
            THEN SingleDuplicateProblems(td, lane, i7_trim, single_idxs) ELSE <<>>),
        IF Len(single_idxs) > 0 /\ Len(dual_idxs) > 0
        THEN MixedPolicy(lane, i7_trim, single_idxs, dual_idxs)
        ELSE IF Len(dual_idxs) > 0
        THEN DualPolicy(lane, i7_trim, i5_trim, dual_idxs)
        ELSE SinglePolicy(lane, i7_trim))

\* lines 233-234: the i7 of the lane cut to the shortest of them
TrimI7(i7_list) ==
    [k \in 1..Len(i7_list) |->
        SubSeq(i7_list[k], 1, SetMin({Len(i7_list[j]) : j \in 1..Len(i7_list)}))]

\* lines 236-240: the i5 that are present cut to the shortest of them
TrimI5(i5_list) ==
    [k \in 1..Len(i5_list) |->
        IF i5_list[k] = None THEN None
        ELSE SubSeq(i5_list[k], 1,
                    SetMin({Len(i5_list[j]) :
                               j \in {j \in 1..Len(i5_list) : i5_list[j] # None}}))]

\* lines 212-229: the I7_MISSING check, then the rows classified by their i5
LaneCheck(td, lane, i7_list, i5_list) ==
    IF \E k \in 1..Len(td) : i7_list[k] = None
    THEN LaneResult(<<LaneProblem("ERROR", "I7_MISSING", lane,
                         Sids(td, SortedInts({k \in 1..Len(td) : i7_list[k] = None})))>>,
                    DEFAULT_BARCODE_MISMATCHES)
    ELSE LaneChecks(td, lane, TrimI7(i7_list), TrimI5(i5_list),
                    SortedInts({k \in 1..Len(td) : i5_list[k] = None}),
                    SortedInts({k \in 1..Len(td) : i5_list[k] # None}))

\* validate_indexes_per_lane, lines 204-394: the body of the loop for the rows
\* td of one lane
validate_lane(td, lane) ==
    LaneCheck(td, lane,
              [k \in 1..Len(td) |-> normalize_seq(td[k].i7)],
              [k \in 1..Len(td) |-> normalize_seq(td[k].i5)])

\* probs and lane_mm without the default of line 206: only a tightened lane
\* has an entry
PerLaneMutNoDefault(lanes, res) ==
    [problems |-> Flatten([j \in 1..Len(lanes) |-> res[j].problems]),
     lane_mm |-> [lane \in {lanes[j] : j \in {i \in 1..Len(lanes) : res[i].mm = 0}} |-> 0]]

\* probs and lane_mm once every lane is done
PerLane(lanes, res) ==
    [problems |-> Flatten([j \in 1..Len(lanes) |-> res[j].problems]),
     lane_mm |-> [lane \in {lanes[j] : j \in 1..Len(lanes)} |->
                     res[CHOOSE j \in 1..Len(lanes) : lanes[j] = lane].mm]]

\* the lanes in turn, with "break" for the "continue" of line 222: the loop
\* ends at the first lane that has a row without i7
LaneLoopMutBreak(t, lanes) ==
    LET stop == {j \in 1..Len(lanes) :
                    \E k \in 1..Len(t) :
                        t[k].lane = lanes[j] /\ normalize_seq(t[k].i7) = None}
        last == IF stop = {} THEN Len(lanes) ELSE SetMin(stop)
    IN  PerLane(SubSeq(lanes, 1, last),
                [j \in 1..last |-> validate_lane(RowsOfLane(t, lanes[j]), lanes[j])])

\* the lanes in turn, "for lane, td in df.groupby(lane_col)"
LaneLoop(t, lanes) ==
    PerLane(lanes, [j \in 1..Len(lanes) |-> validate_lane(RowsOfLane(t, lanes[j]), lanes[j])])

\* validate.validate_indexes_per_lane (lines 180-396): [problems, lane_mm]
validate_indexes_per_lane(t) == LaneLoop(t, LanesOf(t))

\* validate.ValidationSummary of the two checks (lines 405-412)
ValidationSummary(p1, p2) ==
    [problems |-> p1 \o p2.problems, lane_barcode_mismatches |-> p2.lane_mm]

\* validate.validate_all (lines 399-412)
validate_all(t) == ValidationSummary(validate_sample_ids(t), validate_indexes_per_lane(t))

(***************************************************************************)
(* context.py: the operations of RunContext                                *)
(***************************************************************************)
\* An Optional[DataFrame] field: None, or a table with its rows
NoTable == [given |-> FALSE, rows |-> <<>>]
Table(rows) == [given |-> TRUE, rows |-> rows]

\* A map spec is [fields, file]: fields is spec.split(":"), file is the kit
\* file at the path it names.

\* context._parse_i7i5_map (lines 25-38) and _parse_pair_map (lines 41-54):
\* n fields, none of them blank
parse_map(spec, n) ==
    IF Len(spec.fields) # n THEN Raise("InvalidMapSpec")
    ELSE IF \E k \in 1..n : Strip(spec.fields[k]) = <<>> THEN Raise("InvalidMapSpec")
    ELSE Ok(spec.file)

\* lines 116-117: the table of a parsed spec loaded and made a lookup
BuiltSingle(t) == IF ~t.ok THEN t ELSE Ok(build_single_lookup(t.v))
LoadedSingle(p) == IF ~p.ok THEN p ELSE BuiltSingle(load_single_index_table(p.v))

RECURSIVE LoadSingles(_, _, _)
\* a failure of table k is raised, else the loop goes on with its lookup
SinglesStep(maps, k, lookups, r) ==
    IF ~r.ok THEN r ELSE LoadSingles(maps, k + 1, Append(lookups, r.v))

\* load_index_lookups, lines 113-117 and 121-125: parse, load and build each
\* table in turn; the first failure is raised
LoadSingles(maps, k, lookups) ==
    IF k > Len(maps) THEN Ok(lookups)
    ELSE SinglesStep(maps, k, lookups, LoadedSingle(parse_map(maps[k], 3)))

\* lines 133-140: the table of a parsed pair spec loaded and made a lookup
BuiltPair(t) == IF ~t.ok THEN t ELSE Ok(build_pair_lookup(t.v))
LoadedPair(p) == IF ~p.ok THEN p ELSE BuiltPair(load_paired_index_table(p.v))

RECURSIVE LoadPairs(_, _, _)
PairsStep(maps, k, lookups, r) ==
    IF ~r.ok THEN r ELSE LoadPairs(maps, k + 1, Append(lookups, r.v))

\* load_index_lookups, lines 131-140
LoadPairs(maps, k, lookups) ==
    IF k > Len(maps) THEN Ok(lookups)
    ELSE PairsStep(maps, k, lookups, LoadedPair(parse_map(maps[k], 4)))

\* lines 118, 126, 141: the lookups of the loaded tables merged
Merged(l) == IF ~l.ok THEN l ELSE merge_lookups(l.v)

\* lines 113-118 (and 121-126): the tables of one side loaded, then merged
LoadSide(maps) == Merged(LoadSingles(maps, 1, <<>>))

\* lines 129-143: the pair lookup is None unless pair maps were given
WithPairs(a, b, c) ==
    IF ~c.ok THEN c
    ELSE Ok([i7 |-> a.v, i5 |-> b.v, pair |-> [given |-> TRUE, map |-> c.v]])

\* what load_index_lookups raises or returns, given the outcome a of the i7
\* side and b of the i5 side
Lookups(a, b, pm) ==
    IF ~a.ok THEN a
    ELSE IF ~b.ok THEN b
    ELSE IF pm = <<>>
    THEN Ok([i7 |-> a.v, i5 |-> b.v, pair |-> [given |-> FALSE, map |-> <<>>]])
    ELSE WithPairs(a, b, Merged(LoadPairs(pm, 1, <<>>)))

\* RunContext.load_index_lookups (lines 103-143)
load_index_lookups(i7m, i5m, pm) == Lookups(LoadSide(i7m), LoadSide(i5m), pm)

\* the order of sort_values(by=[lane, project_id]); rows of equal keys keep
\* their order
RowBefore(rows, a, b) ==
    \/ rows[a].lane < rows[b].lane
    \/ /\ rows[a].lane = rows[b].lane
       /\ \/ StrLess(rows[a].project_id, rows[b].project_id)
          \/ rows[a].project_id = rows[b].project_id /\ a < b

RECURSIVE SortFrom(_, _)
SortFrom(rows, S) ==
    IF S = {} THEN <<>>
    ELSE LET m == CHOOSE a \in S : \A b \in S \ {a} : RowBefore(rows, a, b)
         IN  <<rows[m]>> \o SortFrom(rows, S \ {m})

\* RunContext.write_output, line 154
sort_values(rows) == SortFrom(rows, 1..Len(rows))

\* RunContext.run, line 196, with the warning counted as an error
has_errorsMutWarnCounts(ps) ==
    \E k \in 1..Len(ps) : ps[k].level \in {"ERROR", "WARN"}

\* RunContext.run, line 196
has_errors(ps) == \E k \in 1..Len(ps) : ps[k].level = "ERROR"

(***************************************************************************)
(* The inputs of a resolve_indexes call                                    *)
(***************************************************************************)
\* The index IDs of the kits
IDs == {<<"A">>, <<"B">>}

\* What a loaded kit maps an ID to: normalized, non-absent sequences
I7Seq(id) == IF id = <<"A">> THEN <<"A", "C", "G">> ELSE <<"G", "T", "A">>
I5Seq(id) == IF id = <<"A">> THEN <<"C", "A", "T">> ELSE <<"T", "G", "C">>
PairSeq(id) ==
    IF id = <<"A">> THEN <<(<<"A", "A", "T">>), (<<"C", "C", "G">>)>>
    ELSE <<(<<"G", "G", "A">>), (<<"T", "T", "C">>)>>

\* Sequence cells: absent, a missing token, a present sequence as typed
SeqCells == {None, <<"n", "a">>, <<"t", " ", "g", "a">>}
\* ID cells: blank, a NaN cell, an ID, an ID with a trailing blank
IdCells == {<<>>, NaN, <<"A">>, <<"B", " ">>}

RowCells == [i7 : SeqCells, i5 : SeqCells, i7_id : IdCells, i5_id : IdCells]

Digit(i) == CASE i = 1 -> "1" [] i = 2 -> "2" [] i = 3 -> "3" [] OTHER -> "4"

\* Row i of a table: lane i, sample S<i>, project P
MakeRow(c, i) ==
    [lane |-> i, sample_id |-> <<"S", Digit(i)>>, project_id |-> <<"P">>,
     i7_id |-> c.i7_id, i5_id |-> c.i5_id, i7 |-> c.i7, i5 |-> c.i5]

\* Rows that accompany the row under study: a paired-kit row and a
\* single-index row resolved independently
CompanionCells ==
    {[i7 |-> None, i5 |-> None, i7_id |-> <<"A">>, i5_id |-> <<"A">>],
     [i7 |-> None, i5 |-> None, i7_id |-> <<"B", " ">>, i5_id |-> <<>>]}

\* Tables of 1..MaxRows rows: one row, at any position, ranges over all of
\* RowCells, the rows around it over CompanionCells.
TableCells(n) ==
    {[j \in 1..n |-> IF j = k THEN c ELSE comp[j]] :
        k \in 1..n, c \in RowCells, comp \in [1..n -> CompanionCells]}

Tables ==
    UNION {{[i \in 1..n |-> MakeRow(t[i], i)] : t \in TableCells(n)} :
           n \in 1..MaxRows}

I7Lookups == {[id \in K |-> I7Seq(id)] : K \in SUBSET IDs}
I5Lookups == {[id \in K |-> I5Seq(id)] : K \in SUBSET IDs}
PairLookups ==
    {[given |-> FALSE, map |-> <<>>]} \cup
    {[given |-> TRUE, map |-> [id \in K |-> PairSeq(id)]] : K \in SUBSET IDs}

(***************************************************************************)
(* resolve_indexes as steps                                                *)
(***************************************************************************)
\* how run ended: not yet, return code, or the exception raised
Running == [kind |-> "running", code |-> 0, err |-> "none"]
Returned(code) == [kind |-> "return", code |-> code, err |-> "none"]
Raised(err) == [kind |-> "raise", code |-> 0, err |-> err]

\* RunContext as constructed (context.py 64-86)
NewContext ==
    [df_input |-> NoTable, df_normalized |-> NoTable, df_resolved |-> NoTable,
     lane_barcode_mismatches |-> <<>>, problems |-> <<>>]

\* resolve_indexes called on its own: there is no run
InitResolve ==
    /\ pc = "resolve_start"
    /\ state = RunState
    /\ df \in Tables
    /\ out = <<>>
    /\ idx = 0
    /\ i7_lookup \in I7Lookups
    /\ i5_lookup \in I5Lookups
    /\ pair_lookup \in PairLookups
    /\ problems = <<>>
    /\ consulted = {}
    /\ input = [status |-> "ok", columns |-> REQUIRED_CANONICAL_COLS, rows |-> <<>>]
    /\ i7_maps = <<>>
    /\ i5_maps = <<>>
    /\ pair_maps = <<>>
    /\ dry_run = TRUE
    /\ ctx = NewContext
    /\ df_expanded = <<>>
    /\ output = NoTable
    /\ result = Running
    /\ phases = <<>>

\* resolve.py 51-62: copy, normalize the columns, enter the loop
ResolveStart ==
    /\ pc = "resolve_start"
    /\ out' = NormalizeColumns(df)
    /\ problems' = <<>>
    /\ consulted' = {}
    /\ idx' = 1
    /\ pc' = "resolve_loop"
    /\ phases' = Append(phases, "resolve_indexes")
    /\ UNCHANGED <<df, i7_lookup, i5_lookup, pair_lookup, run_inputs, state, run_vars>>

\* resolve.py 62-150: one iteration of the loop
ResolveRow ==
    /\ pc = "resolve_loop"
    /\ idx <= Len(out)
    /\ LET s == resolve_row(out[idx], idx, i7_lookup, i5_lookup, pair_lookup)
       IN  /\ out' = [out EXCEPT ![idx] = s.row]
           /\ problems' = problems \o s.problems
           /\ consulted' = consulted \cup s.consulted
    /\ idx' = idx + 1
    /\ UNCHANGED <<pc, df, i7_lookup, i5_lookup, pair_lookup, run_inputs, state, run_vars, phases>>

\* resolve.py 152-156: the final normalization pass and the return
ResolveFinish ==
    /\ pc = "resolve_loop"
    /\ idx > Len(out)
    /\ out' = [i \in 1..Len(out) |->
                 [out[i] EXCEPT !.i7 = normalize_seq(@), !.i5 = normalize_seq(@)]]
    /\ pc' = "resolved"
    /\ UNCHANGED <<df, idx, i7_lookup, i5_lookup, pair_lookup, problems, consulted,
                   run_inputs, state, run_vars, phases>>

NextResolve == ResolveStart \/ ResolveRow \/ ResolveFinish

SpecResolve == InitResolve /\ [][NextResolve]_vars

(***************************************************************************)
(* The inputs of a run                                                     *)
(***************************************************************************)
MaxInputRows == 2

\* A kit file that exists and has the columns its map names
KitFile(rows) == [exists |-> TRUE, columns |-> TRUE, rows |-> rows]

\* "path:ID_COL:SEQ_COL" and "path:PAIR_ID_COL:I7_COL:I5_COL" naming a file
SingleMap(file) == [fields |-> <<(<<"a">>), (<<"b">>), (<<"c">>)>>, file |-> file]
PairMap(file) == [fields |-> <<(<<"a">>), (<<"b">>), (<<"c">>), (<<"e">>)>>, file |-> file]

\* the i7 kit as typed
Kit7 ==
    KitFile(<<[id |-> <<"A">>, seq |-> <<"A", "C", "G">>],
              [id |-> <<"B", " ">>, seq |-> <<"g", " ", "t", "a">>]>>)

\* i7_maps: none; the kit; the kit and a table that agrees with it; the kit and
\* a table that disagrees on B; tables with a repeated ID, a repeated sequence,
\* a missing sequence, a blank ID; a file that does not exist; a file without
\* the named columns; a spec of two fields; a spec with a blank field
I7MapLists ==
    {<<>>,
     <<SingleMap(Kit7)>>,
     <<SingleMap(Kit7), SingleMap(KitFile(<<[id |-> <<"B">>, seq |-> <<"G", "T", "A">>]>>))>>,
     <<SingleMap(Kit7), SingleMap(KitFile(<<[id |-> <<"B">>, seq |-> <<"G", "G", "G">>]>>))>>,
     <<SingleMap(KitFile(<<[id |-> <<"A">>, seq |-> <<"A", "C", "G">>],
                           [id |-> <<"A">>, seq |-> <<"G", "T", "A">>]>>))>>,
     <<SingleMap(KitFile(<<[id |-> <<"A">>, seq |-> <<"A", "C", "G">>],
                           [id |-> <<"B">>, seq |-> <<"a", "c", "g">>]>>))>>,
     <<SingleMap(KitFile(<<[id |-> <<"A">>, seq |-> <<"n", "a">>]>>))>>,
     <<SingleMap(KitFile(<<[id |-> <<" ">>, seq |-> NaN],
                           [id |-> <<"A">>, seq |-> <<"A", "C", "G">>]>>))>>,
     <<SingleMap([exists |-> FALSE, columns |-> FALSE, rows |-> <<>>])>>,
     <<SingleMap([exists |-> TRUE, columns |-> FALSE, rows |-> <<>>])>>,
     <<[fields |-> <<(<<"a">>), (<<"b">>)>>, file |-> Kit7]>>,
     <<[fields |-> <<(<<"a">>), (<<" ">>), (<<"c">>)>>, file |-> Kit7]>>}

Kit5 ==
    KitFile(<<[id |-> <<"A">>, seq |-> <<"C", "A", "T">>],
              [id |-> <<"B">>, seq |-> <<"T", "G", "C">>]>>)

\* i5_maps: none; the kit; the kit and a table that disagrees on A
I5MapLists ==
    {<<>>,
     <<SingleMap(Kit5)>>,
     <<SingleMap(Kit5), SingleMap(KitFile(<<[id |-> <<"A">>, seq |-> <<"G", "G", "G">>]>>))>>}

KitPair ==
    KitFile(<<[id |-> <<"A">>, i7 |-> <<"A", "A", "T">>, i5 |-> <<"C", "C", "G">>],
              [id |-> <<"B">>, i7 |-> <<"G", "G", "A">>, i5 |-> <<"T", "T", "C">>]>>)
\* a paired table whose only row has a blank ID: it loads as no entry at all
KitPairEmpty == KitFile(<<[id |-> <<" ">>, i7 |-> NaN, i5 |-> NaN]>>)

\* pair_maps: none; the kit; the kit and a table that disagrees on A; a table
\* with a missing i5; the table without entries; a spec of three fields
PairMapLists ==
    {<<>>,
     <<PairMap(KitPair)>>,
     <<PairMap(KitPair),
       PairMap(KitFile(<<[id |-> <<"A">>, i7 |-> <<"A", "A", "T">>,
                          i5 |-> <<"T", "T", "C">>]>>))>>,
     <<PairMap(KitFile(<<[id |-> <<"A">>, i7 |-> <<"A", "A", "T">>, i5 |-> NaN]>>))>>,
     <<PairMap(KitPairEmpty)>>,
     <<SingleMap(KitPair)>>}

\* The index cells of an input row
InputCells ==
    {[i7 |-> <<"A", "C", "G">>, i5 |-> <<"C", "A", "T">>, i7_id |-> NaN, i5_id |-> NaN],
     [i7 |-> <<"a", "c", "t">>, i5 |-> <<"c", "a", "t">>, i7_id |-> NaN, i5_id |-> NaN],
     [i7 |-> NaN, i5 |-> NaN, i7_id |-> <<"A">>, i5_id |-> <<"A">>],
     [i7 |-> NaN, i5 |-> NaN, i7_id |-> <<"B", " ">>, i5_id |-> NaN],
     [i7 |-> NaN, i5 |-> NaN, i7_id |-> NaN, i5_id |-> NaN],
     [i7 |-> <<"A", "C", "G", "T">>, i5 |-> NaN, i7_id |-> NaN, i5_id |-> NaN],
     [i7 |-> <<"G", "C", "G">>, i5 |-> NaN, i7_id |-> NaN, i5_id |-> NaN]}

InputRow(lane, sid, proj, c) ==
    [lane |-> lane, sample_id |-> sid, project_id |-> proj,
     i7_id |-> c.i7_id, i5_id |-> c.i5_id, i7 |-> c.i7, i5 |-> c.i5]

\* lane cells that expand, and lane cells that expand_lanes rejects
GoodLaneCells == {<<"1">>, <<"2", ",", " ", "1">>}
BadLaneCells == {NaN, <<"9">>, <<"1", ",">>, <<"1", ",", "1">>}

\* rows with a sample_id that is plain, padded or has a character that is not
\* allowed, in one of two projects
InputRows ==
    {InputRow(l, s, p, c) :
        l \in GoodLaneCells,
        s \in {<<"S", "1">>, <<"S", "2", " ">>, <<"S", "#">>},
        p \in {<<"P">>, <<"Q">>},
        c \in InputCells}

\* the rows that accompany the row under study
CompanionRows ==
    {InputRow(<<"1">>, <<"S", "1">>, <<"P">>,
              [i7 |-> <<"A", "C", "G">>, i5 |-> <<"C", "A", "T">>, i7_id |-> NaN, i5_id |-> NaN]),
     InputRow(<<"1">>, <<"S", "1">>, <<"Q">>,
              [i7 |-> <<"A", "C", "G", "T">>, i5 |-> NaN, i7_id |-> NaN, i5_id |-> NaN]),
     InputRow(<<"1", " ", "2">>, <<"S", "2">>, <<"P">>,
              [i7 |-> <<"G", "C", "G">>, i5 |-> NaN, i7_id |-> NaN, i5_id |-> NaN]),
     InputRow(<<"2">>, <<"S", "2">>, <<"P">>,
              [i7 |-> NaN, i5 |-> NaN, i7_id |-> <<"A">>, i5_id |-> <<"A">>])}

\* Input tables of 1..MaxInputRows rows: one row, at any position, ranges over
\* InputRows, the rows around it over CompanionRows
InputTables ==
    UNION {{[j \in 1..n |-> IF j = k THEN r ELSE comp[j]] :
               k \in 1..n, r \in InputRows, comp \in [1..n -> CompanionRows]} :
           n \in 1..MaxInputRows}

GoodInput(rows) == [status |-> "ok", columns |-> REQUIRED_CANONICAL_COLS, rows |-> rows]

\* a row that resolves through the paired kit
PlainRow(l) == InputRow(l, <<"S", "1">>, <<"P">>,
                        [i7 |-> NaN, i5 |-> NaN, i7_id |-> <<"A">>, i5_id |-> <<"A">>])

\* Runs that differ in the input file: unreadable, columns missing or extra,
\* lane cells good and bad
InputScenarios ==
    {[input |-> [status |-> st, columns |-> cols, rows |-> <<PlainRow(l)>>],
      i7_maps |-> <<SingleMap(Kit7)>>, i5_maps |-> <<SingleMap(Kit5)>>,
      pair_maps |-> <<PairMap(KitPair)>>] :
        st \in {"ok", "missing", "unsupported"},
        cols \in {REQUIRED_CANONICAL_COLS, REQUIRED_CANONICAL_COLS \ {"i5_id"},
                  REQUIRED_CANONICAL_COLS \ {"lane", "i7"},
                  REQUIRED_CANONICAL_COLS \cup {"library_type"}},
        l \in GoodLaneCells \cup BadLaneCells}

\* Runs that differ in the kit tables
MapScenarios ==
    {[input |-> GoodInput(<<PlainRow(<<"1">>)>>),
      i7_maps |-> m7, i5_maps |-> m5, pair_maps |-> mp] :
        m7 \in I7MapLists, m5 \in I5MapLists, mp \in PairMapLists}

\* Runs that differ in the rows of the input table
TableScenarios ==
    {[input |-> GoodInput(t), i7_maps |-> m[1], i5_maps |-> m[2], pair_maps |-> m[3]] :
        t \in InputTables,
        m \in {<<(<<SingleMap(Kit7)>>), (<<SingleMap(Kit5)>>), (<<>>)>>,
               <<(<<SingleMap(Kit7)>>), (<<SingleMap(Kit5)>>), (<<PairMap(KitPair)>>)>>,
               <<(<<>>), (<<>>), (<<PairMap(KitPairEmpty)>>)>>}}

Scenarios == InputScenarios \cup MapScenarios \cup TableScenarios

(***************************************************************************)
(* RunContext.run as steps                                                 *)
(***************************************************************************)
\* a context as constructed by __main__ (lines 66-73), run not yet called
Init ==
    /\ pc = "read_input"
    /\ state = RunState
    /\ \E s \in Scenarios :
          /\ input = s.input
          /\ i7_maps = s.i7_maps
          /\ i5_maps = s.i5_maps
          /\ pair_maps = s.pair_maps
    /\ dry_run \in BOOLEAN
    /\ ctx = NewContext
    /\ df_expanded = <<>>
    /\ output = NoTable
    /\ result = Running
    /\ phases = <<>>
    /\ df = <<>>
    /\ out = <<>>
    /\ idx = 0
    /\ i7_lookup = <<>>
    /\ i5_lookup = <<>>
    /\ pair_lookup = [given |-> FALSE, map |-> <<>>]
    /\ problems = <<>>
    /\ consulted = {}

\* an exception leaves run: nothing else changes
Abort(err) ==
    /\ pc' = "raised"
    /\ result' = Raised(err)

\* context.py 168-169 and read_input (88-101)
RunReadInput ==
    /\ pc = "read_input"
    /\ phases' = Append(phases, "read_input")
    /\ IF input.status = "missing"
       THEN Abort("FileNotFound") /\ UNCHANGED ctx
       ELSE IF input.status = "unsupported"
       THEN Abort("UnsupportedInput") /\ UNCHANGED ctx
       ELSE /\ ctx' = [ctx EXCEPT !.df_input = Table(input.rows)]
            /\ pc' = "check_columns"
            /\ UNCHANGED result
    /\ UNCHANGED <<df, out, idx, i7_lookup, i5_lookup, pair_lookup, problems, consulted,
                   run_inputs, state, df_expanded, output>>

\* context.py 172
RunCheckColumns ==
    /\ pc = "check_columns"
    /\ phases' = Append(phases, "check_required_columns")
    /\ LET c == check_required_columns(input.columns)
       IN  IF ~c.ok THEN Abort(c.err)
           ELSE pc' = "expand_lanes" /\ UNCHANGED result
    /\ UNCHANGED <<df, out, idx, i7_lookup, i5_lookup, pair_lookup, problems, consulted,
                   run_inputs, state, ctx, df_expanded, output>>

\* context.py 173
RunExpandLanes ==
    /\ pc = "expand_lanes"
    /\ phases' = Append(phases, "expand_lanes")
    /\ LET e == expand_lanes(ctx.df_input.rows)
       IN  IF ~e.ok THEN Abort(e.err) /\ UNCHANGED df_expanded
           ELSE /\ df_expanded' = e.v
                /\ pc' = "normalize_minimal"
                /\ UNCHANGED result
    /\ UNCHANGED <<df, out, idx, i7_lookup, i5_lookup, pair_lookup, problems, consulted,
                   run_inputs, state, ctx, output>>

\* context.py 174-175
RunNormalize ==
    /\ pc = "normalize_minimal"
    /\ phases' = Append(phases, "normalize_minimal")
    /\ ctx' = [ctx EXCEPT !.df_normalized = Table(normalize_minimal(df_expanded))]
    /\ pc' = "load_index_lookups"
    /\ UNCHANGED <<df, out, idx, i7_lookup, i5_lookup, pair_lookup, problems, consulted,
                   run_inputs, state, df_expanded, output, result>>

\* context.py 178-186 with a failed load overlooked: the run goes on to
\* resolve_indexes without lookups
LoadedMutContinue(l) ==
    /\ i7_lookup' = IF l.ok THEN l.v.i7 ELSE <<>>
    /\ i5_lookup' = IF l.ok THEN l.v.i5 ELSE <<>>
    /\ pair_lookup' = IF l.ok THEN l.v.pair ELSE [given |-> FALSE, map |-> <<>>]
    /\ df' = ctx.df_normalized.rows
    /\ pc' = "resolve_start"
    /\ UNCHANGED result

\* context.py 178-186, given what load_index_lookups raised or returned: the
\* exception leaves run, or the lookups go to resolve_indexes with df_norm
Loaded(l) ==
    IF ~l.ok
    THEN Abort(l.err) /\ UNCHANGED <<df, i7_lookup, i5_lookup, pair_lookup>>
    ELSE /\ i7_lookup' = l.v.i7
         /\ i5_lookup' = l.v.i5
         /\ pair_lookup' = l.v.pair
         /\ df' = ctx.df_normalized.rows
         /\ pc' = "resolve_start"
         /\ UNCHANGED result

\* context.py 178-186: the lookups loaded and merged, then handed to
\* resolve_indexes
RunLoadLookups ==
    /\ pc = "load_index_lookups"
    /\ phases' = Append(phases, "load_index_lookups")
    /\ Loaded(load_index_lookups(i7_maps, i5_maps, pair_maps))
    /\ UNCHANGED <<out, idx, problems, consulted, run_inputs, state, ctx, df_expanded, output>>

\* context.py 187-188: what resolve_indexes returned is kept
RunCollect ==
    /\ pc = "resolved"
    /\ ctx' = [ctx EXCEPT !.df_resolved = Table(out), !.problems = @ \o problems]
    /\ pc' = "validate_all"
    /\ UNCHANGED <<df, out, idx, i7_lookup, i5_lookup, pair_lookup, problems, consulted,
                   run_inputs, state, df_expanded, output, result, phases>>

\* context.py 192-193: the summary of validate_all kept in the context
Validated(c, vs) ==
    [c EXCEPT !.problems = @ \o vs.problems,
              !.lane_barcode_mismatches = vs.lane_barcode_mismatches]

\* context.py 191-193
RunValidate ==
    /\ pc = "validate_all"
    /\ phases' = Append(phases, "validate_all")
    /\ ctx' = Validated(ctx, validate_all(ctx.df_resolved.rows))
    /\ pc' = "decide"
    /\ UNCHANGED <<df, out, idx, i7_lookup, i5_lookup, pair_lookup, problems, consulted,
                   run_inputs, state, df_expanded, output, result>>

\* context.py 196-204 without the write: return 2 on errors, return 0 on a dry
\* run, else go on to write
RunDecide ==
    /\ pc = "decide"
    /\ IF has_errors(ctx.problems)
       THEN pc' = "returned" /\ result' = Returned(2)
       ELSE IF dry_run
       THEN pc' = "returned" /\ result' = Returned(0)
       ELSE pc' = "write_output" /\ UNCHANGED result
    /\ UNCHANGED <<df, out, idx, i7_lookup, i5_lookup, pair_lookup, problems, consulted,
                   run_inputs, state, ctx, df_expanded, output, phases>>

\* context.py 202-204 and write_output (145-159)
RunWrite ==
    /\ pc = "write_output"
    /\ phases' = Append(phases, "write_output")
    /\ output' = Table(sort_values(ctx.df_resolved.rows))
    /\ pc' = "returned"
    /\ result' = Returned(0)
    /\ UNCHANGED <<df, out, idx, i7_lookup, i5_lookup, pair_lookup, problems, consulted,
                   run_inputs, state, ctx, df_expanded>>

Next ==
    \/ RunReadInput
    \/ RunCheckColumns
    \/ RunExpandLanes
    \/ RunNormalize
    \/ RunLoadLookups
    \/ ResolveStart
    \/ ResolveRow
    \/ ResolveFinish
    \/ RunCollect
    \/ RunValidate
    \/ RunDecide
    \/ RunWrite

Spec == Init /\ [][Next]_vars

(***************************************************************************)
(* Properties of resolve_indexes                                           *)
(***************************************************************************)
\* Row i has been through the loop body.
Processed(i) == pc \in {"resolve_loop", "resolved"} /\ i \in 1..Len(out) /\ i < idx

\* The row as given: its sequences after normalization, its IDs as read
InI7(i) == normalize_seq(df[i].i7)
InI5(i) == normalize_seq(df[i].i5)
InI7Id(i) == RowId(df[i].i7_id)
InI5Id(i) == RowId(df[i].i5_id)

\* The Problems recorded for row i, and how many of them carry a code
ProblemsOf(i) == SelectSeq(problems, LAMBDA p : p.row = i)
CountOf(i, code) == Len(SelectSeq(problems, LAMBDA p : p.row = i /\ p.code = code))
Tagged(i, code) ==
    \E k \in 1..Len(problems) :
        /\ problems[k].code = code
        /\ problems[k].level = "ERROR"
        /\ problems[k].lane = df[i].lane
        /\ problems[k].sample_id = df[i].sample_id

NeedsResolution(i) == InI7(i) = None \/ InI5(i) = None
EqualIds(i) == InI7Id(i) # <<>> /\ InI5Id(i) # <<>> /\ InI7Id(i) = InI5Id(i)
Independent(i) == NeedsResolution(i) /\ ~EqualIds(i)

\* C3: a row whose two sequences are present after normalization comes out with
\* those normalized sequences and its other fields as they were (the IDs as
\* stripped text), no Problem is recorded for it and no lookup is read for it,
\* whatever the lookups hold and whatever its IDs are.
C3_PresentRowUnchanged ==
    \A i \in 1..Len(df) :
        (Processed(i) /\ InI7(i) # None /\ InI5(i) # None) =>
            /\ out[i].i7 = InI7(i)
            /\ out[i].i5 = InI5(i)
            /\ out[i].i7_id = Strip(ToStr(df[i].i7_id))
            /\ out[i].i5_id = Strip(ToStr(df[i].i5_id))
            /\ out[i].lane = df[i].lane
            /\ out[i].sample_id = df[i].sample_id
            /\ out[i].project_id = df[i].project_id
            /\ ProblemsOf(i) = <<>>
            /\ \A c \in consulted : c[1] # i

\* C3 witness: a finished run with a present row whose IDs are equal while no
\* pair table was given and the ID is in no lookup.
C3_Witness ==
    /\ pc = "resolved"
    /\ \E i \in 1..Len(df) :
          /\ InI7(i) # None /\ InI5(i) # None
          /\ EqualIds(i)
          /\ ~pair_lookup.given
          /\ InI7Id(i) \notin DOMAIN i7_lookup
          /\ InI5Id(i) \notin DOMAIN i5_lookup

C5_PairedFailure ==
    \A i \in 1..Len(df) :
        (/\ Processed(i)
         /\ NeedsResolution(i)
         /\ EqualIds(i)
         /\ InI7Id(i) \notin DOMAIN pair_lookup.map) =>
            /\ ~pair_lookup.given =>
                    /\ CountOf(i, "PAIR_TABLE_NOT_PROVIDED") = 1
                    /\ Len(ProblemsOf(i)) = 1
            /\ pair_lookup.given =>
                    /\ CountOf(i, "PAIR_ID_NOT_FOUND") = 1
                    /\ Len(ProblemsOf(i)) = 1
            /\ \A k \in 1..Len(ProblemsOf(i)) : ProblemsOf(i)[k].level = "ERROR"
            /\ out[i].i7 = InI7(i)
            /\ out[i].i5 = InI5(i)
            /\ <<i, "i7">> \notin consulted
            /\ <<i, "i5">> \notin consulted

\* C6: a row with exactly one of its two sequences present is resolved
\* independently, also when its IDs are equal and a key of the pair lookup:
\* the sequence that was present keeps its value and the pair lookup is not
\* read for the row.
C6_PartlyPresentIndependent ==
    \A i \in 1..Len(df) :
        (Processed(i) /\ (InI7(i) = None) # (InI5(i) = None)) =>
            /\ InI7(i) # None => out[i].i7 = InI7(i)
            /\ InI5(i) # None => out[i].i5 = InI5(i)
            /\ <<i, "pair">> \notin consulted
            /\ CountOf(i, "PAIR_TABLE_NOT_PROVIDED") = 0
            /\ CountOf(i, "PAIR_ID_NOT_FOUND") = 0

\* C7: in independent resolution of a row whose i7 sequence is absent, a blank
\* i7_id records one ERROR I7_MISSING, an i7_id that is no key of the i7
\* lookup records one ERROR I7_ID_NOT_FOUND, and otherwise the i7 sequence
\* becomes the lookup's sequence for i7_id with neither recorded; a row whose
\* i7 sequence is present keeps it and the i7 lookup is not read for it.
C7_IndependentI7 ==
    \A i \in 1..Len(df) :
        (Processed(i) /\ Independent(i)) =>
            IF InI7(i) # None
            THEN /\ out[i].i7 = InI7(i)
                 /\ <<i, "i7">> \notin consulted
                 /\ CountOf(i, "I7_MISSING") = 0
                 /\ CountOf(i, "I7_ID_NOT_FOUND") = 0
            ELSE IF InI7Id(i) = <<>>
            THEN /\ CountOf(i, "I7_MISSING") = 1
                 /\ CountOf(i, "I7_ID_NOT_FOUND") = 0
                 /\ Tagged(i, "I7_MISSING")
                 /\ out[i].i7 = None
            ELSE IF InI7Id(i) \notin DOMAIN i7_lookup
            THEN /\ CountOf(i, "I7_ID_NOT_FOUND") = 1
                 /\ CountOf(i, "I7_MISSING") = 0
                 /\ Tagged(i, "I7_ID_NOT_FOUND")
                 /\ out[i].i7 = None
            ELSE /\ out[i].i7 = i7_lookup[InI7Id(i)]
                 /\ CountOf(i, "I7_MISSING") = 0
                 /\ CountOf(i, "I7_ID_NOT_FOUND") = 0

\* C7 witness: a finished run in which the three outcomes for an absent i7
\* sequence and the kept present sequence all occur is more than one table
\* holds; the witness is a finished run with a row on which the i7 lookup
\* filled the sequence next to a row whose i7_id was not found.
C7_Witness ==
    /\ pc = "resolved"
    /\ \E i, j \in 1..Len(df) :
          /\ Independent(i) /\ InI7(i) = None
          /\ InI7Id(i) \in DOMAIN i7_lookup
          /\ out[i].i7 = i7_lookup[InI7Id(i)]
          /\ Independent(j) /\ InI7(j) = None
          /\ InI7Id(j) # <<>>
          /\ InI7Id(j) \notin DOMAIN i7_lookup
          /\ CountOf(j, "I7_ID_NOT_FOUND") = 1

\* C8: after resolution every row whose i7 sequence is absent has an ERROR
\* I7_SEQUENCE_NOT_RESOLVED tagged with its lane and sample_id, whichever rule
\* was applied to it.
C8_UnresolvedAlwaysReported ==
    \A i \in 1..Len(df) :
        (Processed(i) /\ out[i].i7 = None) =>
            /\ CountOf(i, "I7_SEQUENCE_NOT_RESOLVED") >= 1
            /\ Tagged(i, "I7_SEQUENCE_NOT_RESOLVED")

\* C9: a row with absent i5 sequence and blank i5_id whose i7 sequence is
\* present, or absent with an i7_id that is a key of the i7 lookup, has no
\* Problem recorded and its i5 sequence stays absent.
C9_SingleIndexRow ==
    \A i \in 1..Len(df) :
        (/\ Processed(i)
         /\ InI5(i) = None /\ InI5Id(i) = <<>>
         /\ \/ InI7(i) # None
            \/ InI7Id(i) \in DOMAIN i7_lookup) =>
            /\ ProblemsOf(i) = <<>>
            /\ out[i].i5 = None
            /\ out[i].i7 # None

\* C9 witness: a finished run with a single-index row whose i7 sequence came
\* from the i7 lookup while the i5 lookup is not empty.
C9_Witness ==
    /\ pc = "resolved"
    /\ \E i \in 1..Len(df) :
          /\ InI5(i) = None /\ InI5Id(i) = <<>>
          /\ InI7(i) = None
          /\ InI7Id(i) \in DOMAIN i7_lookup
          /\ DOMAIN i5_lookup # {}

\* C10: in independent resolution, a row with absent i5 sequence whose i5_id is
\* present and no key of the i5 lookup gets one ERROR I5_ID_NOT_FOUND and its
\* i5 sequence stays absent, while its i7 side is resolved as if i5 had not
\* failed: i7 is kept when present, filled when i7_id is a key of the i7
\* lookup, and I7_SEQUENCE_NOT_RESOLVED is recorded only when i7 ends absent.
C10_I5FailureLeavesI7 ==
    \A i \in 1..Len(df) :
        (/\ Processed(i)
         /\ Independent(i)
         /\ InI5(i) = None
         /\ InI5Id(i) # <<>>
         /\ InI5Id(i) \notin DOMAIN i5_lookup) =>
            /\ CountOf(i, "I5_ID_NOT_FOUND") = 1
            /\ Tagged(i, "I5_ID_NOT_FOUND")
            /\ out[i].i5 = None
            /\ out[i].i7 = (IF InI7(i) # None THEN InI7(i)
                            ELSE IF InI7Id(i) \in DOMAIN i7_lookup
                            THEN i7_lookup[InI7Id(i)]
                            ELSE None)
            /\ (CountOf(i, "I7_SEQUENCE_NOT_RESOLVED") = 0) = (out[i].i7 # None)

\* C10 witness: a finished run with a row whose i5_id was not found and whose
\* i7 sequence was filled from the i7 lookup.
C10_Witness ==
    /\ pc = "resolved"
    /\ \E i \in 1..Len(df) :
          /\ Independent(i)
          /\ InI5(i) = None /\ InI5Id(i) # <<>>
          /\ InI5Id(i) \notin DOMAIN i5_lookup
          /\ InI7(i) = None
          /\ InI7Id(i) \in DOMAIN i7_lookup
          /\ out[i].i7 = i7_lookup[InI7Id(i)]
          /\ CountOf(i, "I5_ID_NOT_FOUND") = 1

(***************************************************************************)
(* Properties of RunContext.run                                            *)
(***************************************************************************)
\* An ERROR-level Problem is among ps
HasErrorLevel(ps) == \E k \in 1..Len(ps) : ps[k].level = "ERROR"

\* run has left resolution and validation behind
PastValidation == pc \in {"decide", "write_output", "returned"}

\* The resolver (its list problems) or the validator (validate_all on the
\* resolved table) produced an ERROR-level Problem
ErrorAccumulated ==
    \/ HasErrorLevel(problems)
    \/ HasErrorLevel(validate_all(out).problems)

\* C1: when run has returned, it returned 0 if and only if neither the resolver
\* nor the validator produced an ERROR-level Problem (and 2 otherwise); the
\* output exists if and only if run returned 0 and dry_run is false, so
\* WARN-level Problems alone never keep it from being written; and in no state
\* is there an output while an ERROR was produced or dry_run is set.
C1_RunOutcome ==
    /\ pc = "returned" =>
          /\ result = (IF ErrorAccumulated THEN Returned(2) ELSE Returned(0))
          /\ output.given <=> (result = Returned(0) /\ ~dry_run)
          /\ ctx.problems = problems \o validate_all(out).problems
    /\ output.given => (PastValidation /\ ~ErrorAccumulated /\ ~dry_run)

\* C1 witness: run returned 0 and wrote the output although the validator
\* recorded a WARN.
C1_Witness ==
    /\ pc = "returned"
    /\ result = Returned(0)
    /\ output.given
    /\ \E k \in 1..Len(ctx.problems) : ctx.problems[k].level = "WARN"

\* The phases of run in the order of context.py 168-202
PhaseOrder ==
    <<"read_input", "check_required_columns", "expand_lanes", "normalize_minimal",
      "load_index_lookups", "resolve_indexes", "validate_all", "write_output">>

IsPrefix(p, q) == Len(p) <= Len(q) /\ SubSeq(q, 1, Len(p)) = p
Begun(phase) == \E k \in 1..Len(phases) : phases[k] = phase

\* Nothing of the later phases exists: no Problem, no resolved table, no
\* mismatch policy, no output
NothingRecorded ==
    /\ ctx.problems = <<>>
    /\ problems = <<>>
    /\ ~ctx.df_resolved.given
    /\ ctx.lane_barcode_mismatches = <<>>
    /\ ~output.given

\* The input can be read and fails the column check / passes it and fails the
\* lane expansion / passes both while a table load or a merge fails
ColumnCheckFails == input.status = "ok" /\ ~check_required_columns(input.columns).ok
ExpansionFails ==
    /\ input.status = "ok"
    /\ check_required_columns(input.columns).ok
    /\ ~expand_lanes(input.rows).ok
LoadFails ==
    /\ input.status = "ok"
    /\ check_required_columns(input.columns).ok
    /\ expand_lanes(input.rows).ok
    /\ ~load_index_lookups(i7_maps, i5_maps, pair_maps).ok

\* C2: the phases begin in the order column check, lane expansion (and
\* normalization), lookup load-and-merge, index resolution, lane validation,
\* output write: resolution begins only with the normalized expanded table and
\* the lookups in hand, validation only when resolution has returned, the write
\* only after validation. When the column check, the lane expansion, a table
\* load or a merge fails, run ends with that exception in that phase: no later
\* phase begins, no Problem is recorded and no output is written.
C2_PhaseOrderAndAbort ==
    /\ IsPrefix(phases, PhaseOrder)
    /\ Begun("resolve_indexes") => ctx.df_normalized.given /\ df = ctx.df_normalized.rows
    /\ Begun("validate_all") => ctx.df_resolved.given /\ ctx.df_resolved.rows = out
    /\ Begun("validate_all") => pc \notin {"resolve_start", "resolve_loop", "resolved"}
    /\ Begun("write_output") => PastValidation
    /\ ColumnCheckFails =>
          /\ IsPrefix(phases, SubSeq(PhaseOrder, 1, 2))
          /\ Begun("check_required_columns") =>
                pc = "raised" /\ result = Raised("MissingColumns")
    /\ ExpansionFails =>
          /\ IsPrefix(phases, SubSeq(PhaseOrder, 1, 3))
          /\ Begun("expand_lanes") =>
                pc = "raised" /\ result = Raised(expand_lanes(input.rows).err)
    /\ LoadFails =>
          /\ IsPrefix(phases, SubSeq(PhaseOrder, 1, 5))
          /\ Begun("load_index_lookups") =>
                /\ pc = "raised"
                /\ result = Raised(load_index_lookups(i7_maps, i5_maps, pair_maps).err)
    /\ (ColumnCheckFails \/ ExpansionFails \/ LoadFails) => NothingRecorded
    /\ pc = "raised" => NothingRecorded

\* C2 witness: the merge of two i7 tables that disagree on an ID has ended the
\* run after the column check and the lane expansion passed.
C2_Witness ==
    /\ pc = "raised"
    /\ result = Raised("IdCollision")
    /\ phases = SubSeq(PhaseOrder, 1, 5)
    /\ NothingRecorded

(***************************************************************************)
(* validate_all called on a resolved table                                 *)
(***************************************************************************)
MaxLaneRows == 3

\* a row of a resolved table, with its lane, sample_id, project_id and the
\* two sequences
ValidateRow(lane, sid, project, i7, i5) ==
    [lane |-> lane, sample_id |-> sid, project_id |-> project,
     i7_id |-> <<>>, i5_id |-> <<>>, i7 |-> i7, i5 |-> i5]

\* what the rows of a table for the barcode checks are drawn from: lanes 1 and
\* 2; i7 at distance 0 to 3 of each other, one longer, one missing; likewise
\* the i5
IndexCells ==
    [lane : {1, 2},
     i7 : {None, <<"A", "A", "A">>, <<"A", "A", "C">>, <<"C", "C", "C">>,
           <<"A", "A", "A", "T">>},
     i5 : {None, <<"G", "G", "G">>, <<"G", "G", "T">>, <<"T", "T", "T">>,
           <<"G", "G", "G", "A">>}]

\* the table of the cells c, each sample_id once
IndexTable(c) ==
    [k \in DOMAIN c |->
        ValidateRow(c[k].lane, <<"S", Digit(k)>>, <<"P">>, c[k].i7, c[k].i5)]

\* what the rows of a table for the sample_id checks are drawn from
SampleIdCells ==
    [lane : {1, 2}, sid : {<<"S", "1">>, <<"S", "2">>},
     project : {<<"P">>, <<"Q">>, <<"T">>}]

\* the table of the cells c; the dual-index sequences of row k differ from
\* those of every other row in two places
SampleIdTable(c) ==
    [k \in DOMAIN c |->
        ValidateRow(c[k].lane, c[k].sid, c[k].project,
                    [j \in 1..(2 * MaxLaneRows) |->
                        IF j \in {k, MaxLaneRows + k} THEN "C" ELSE "A"],
                    [j \in 1..(2 * MaxLaneRows) |->
                        IF j \in {k, MaxLaneRows + k} THEN "T" ELSE "G"])]

\* validate_all called on its own: the context holds the resolved table (up
\* to MaxLaneRows rows, the first in lane 1 for the barcode checks) and
\* nothing else
InitValidate ==
    /\ pc = "validate_all"
    /\ state = RunState
    /\ \E n \in 1..MaxLaneRows :
          \/ \E c \in [1..n -> IndexCells] : c[1].lane = 1 /\ out = IndexTable(c)
          \/ \E c \in [1..n -> SampleIdCells] : out = SampleIdTable(c)
    /\ ctx = [NewContext EXCEPT !.df_resolved = Table(out)]
    /\ df = <<>>
    /\ idx = 0
    /\ i7_lookup = <<>>
    /\ i5_lookup = <<>>
    /\ pair_lookup = [given |-> FALSE, map |-> <<>>]
    /\ problems = <<>>
    /\ consulted = {}
    /\ input = [status |-> "ok", columns |-> REQUIRED_CANONICAL_COLS, rows |-> <<>>]
    /\ i7_maps = <<>>
    /\ i5_maps = <<>>
    /\ pair_maps = <<>>
    /\ dry_run = TRUE
    /\ df_expanded = <<>>
    /\ output = NoTable
    /\ result = Running
    /\ phases = <<>>

SpecValidate == InitValidate /\ [][RunValidate]_vars

(***************************************************************************)
(* Properties of validate_all                                              *)
(***************************************************************************)
\* validate_all has returned and its summary is in the context
ValidationDone == pc = "decide"

\* the validated table, its lanes and the positions of the rows of a lane
Sheet == ctx.df_resolved.rows
SheetLanes == {Sheet[k].lane : k \in 1..Len(Sheet)}
InLane(lane) == {k \in 1..Len(Sheet) : Sheet[k].lane = lane}

\* every row of the lane has an i7; the rows with and without an i5
AllI7Present(lane) == \A k \in InLane(lane) : Sheet[k].i7 # None
DualRows(lane) == {k \in InLane(lane) : Sheet[k].i5 # None}
SingleRows(lane) == {k \in InLane(lane) : Sheet[k].i5 = None}

\* the i7 of row k cut to the shortest i7 of its lane, and its i5 cut to the
\* shortest i5 of its lane
Cut7(k) ==
    SubSeq(Sheet[k].i7, 1, SetMin({Len(Sheet[j].i7) : j \in InLane(Sheet[k].lane)}))
Cut5(k) ==
    SubSeq(Sheet[k].i5, 1, SetMin({Len(Sheet[j].i5) : j \in DualRows(Sheet[k].lane)}))

\* the number of positions at which two texts of one length differ
Differ(a, b) == Cardinality({j \in 1..Len(a) : a[j] # b[j]})

\* the Problems recorded for a lane at a level, as positions in ctx.problems
LaneProblems(lane, level) ==
    {j \in 1..Len(ctx.problems) :
        ctx.problems[j].lane = lane /\ ctx.problems[j].level = level}
\* those with a given code
WithCode(js, code) == {j \in js : ctx.problems[j].code = code}

\* the lane was tightened: tolerance 0 and one WARN, with the given code
Tightened(lane, code) ==
    /\ ctx.lane_barcode_mismatches[lane] = 0
    /\ Cardinality(LaneProblems(lane, "WARN")) = 1
    /\ WithCode(LaneProblems(lane, "WARN"), code) = LaneProblems(lane, "WARN")

\* the lane keeps the default tolerance and has no WARN
NotTightened(lane) ==
    /\ ctx.lane_barcode_mismatches[lane] = 1
    /\ LaneProblems(lane, "WARN") = {}

\* the effective distances max(d7, d5) of the pairs of rows of a lane
PairDistances(lane) ==
    {SetMax({Differ(Cut7(p[1]), Cut7(p[2])), Differ(Cut5(p[1]), Cut5(p[2]))}) :
        p \in {q \in InLane(lane) \X InLane(lane) : q[1] < q[2]}}

\* C11: a lane whose rows all have an i7 and an i5 gets tolerance 0 and one
\* WARN, with a code of its own for distance 1 and for distance 2, exactly
\* when the least max(d7, d5) over the pairs of its rows is 1 or 2; otherwise
\* it keeps tolerance 1 and gets no WARN.
C11_DualOnlyLane ==
    ValidationDone =>
        \A lane \in SheetLanes :
            (AllI7Present(lane) /\ SingleRows(lane) = {}) =>
                IF PairDistances(lane) = {} THEN NotTightened(lane)
                ELSE IF SetMin(PairDistances(lane)) = 1
                THEN Tightened(lane, "DUAL_LANE_PAIR_TOO_SIMILAR_HAMMING_1")
                ELSE IF SetMin(PairDistances(lane)) = 2
                THEN Tightened(lane, "DUAL_LANE_PAIR_SIMILAR_HAMMING_2")
                ELSE NotTightened(lane)

\* C11 witness: a dual-only lane of three rows was tightened for distance 2,
\* which one pair reaches through its i5 alone after an i5 was cut.
C11_Witness ==
    /\ ValidationDone
    /\ \E lane \in SheetLanes :
          /\ AllI7Present(lane) /\ SingleRows(lane) = {}
          /\ Cardinality(InLane(lane)) = 3
          /\ SetMin(PairDistances(lane)) = 2
          /\ \E k, l \in InLane(lane) :
                /\ Differ(Cut7(k), Cut7(l)) = 0
                /\ Differ(Cut5(k), Cut5(l)) = 2
          /\ \E k \in InLane(lane) : Cut5(k) # Sheet[k].i5
          /\ Tightened(lane, "DUAL_LANE_PAIR_SIMILAR_HAMMING_2")

\* the distances between the trimmed i7 of a single-index row and of a
\* dual-index row of a lane
MixedDistances(lane) ==
    {Differ(Cut7(k), Cut7(l)) : k \in SingleRows(lane), l \in DualRows(lane)}

\* C12: a lane with single-index and dual-index rows, all with an i7, gets
\* tolerance 0 and exactly one WARN when the least distance m between the
\* trimmed i7 of a single row and of a dual row is below 3, 0 included, with a
\* code of its own for m = 1, for m = 2 and for the rest; when m is 3 or more
\* it keeps tolerance 1 and gets no WARN.
C12_MixedLane ==
    ValidationDone =>
        \A lane \in SheetLanes :
            (AllI7Present(lane) /\ SingleRows(lane) # {} /\ DualRows(lane) # {}) =>
                IF SetMin(MixedDistances(lane)) = 1
                THEN Tightened(lane, "MIXED_LANE_I7_TOO_SIMILAR_HAMMING_1")
                ELSE IF SetMin(MixedDistances(lane)) = 2
                THEN Tightened(lane, "MIXED_LANE_I7_SIMILAR_HAMMING_2")
                ELSE IF SetMin(MixedDistances(lane)) < 3
                THEN Tightened(lane, "MIXED_LANE_I7_TOO_SIMILAR")
                ELSE NotTightened(lane)

\* C12 witness: a mixed lane whose single row has the i7 of a dual row once
\* the longer one is cut was tightened with the code of the remaining case,
\* while two dual rows of the lane are further apart.
C12_Witness ==
    /\ ValidationDone
    /\ \E lane \in SheetLanes :
          /\ AllI7Present(lane)
          /\ Cardinality(SingleRows(lane)) = 1
          /\ Cardinality(DualRows(lane)) = 2
          /\ MixedDistances(lane) = {0, 3}
          /\ \E k \in InLane(lane) : Cut7(k) # Sheet[k].i7
          /\ Tightened(lane, "MIXED_LANE_I7_TOO_SIMILAR")

\* the distances between the distinct trimmed i7 of a lane
DistinctDistances(lane) ==
    {Differ(p[1], p[2]) :
        p \in {q \in {Cut7(k) : k \in InLane(lane)} \X {Cut7(k) : k \in InLane(lane)} :
                  q[1] # q[2]}}

\* C13: a lane whose rows all have an i7 and no i5 gets tolerance 0 and one
\* WARN, with a code of its own for distance 1 and for distance 2, exactly
\* when the least distance among its distinct trimmed i7 is 1 or 2; equal i7
\* do not enter that minimum, and a lane with fewer than two distinct trimmed
\* i7 keeps tolerance 1 and gets no WARN.
C13_SingleOnlyLane ==
    ValidationDone =>
        \A lane \in SheetLanes :
            (AllI7Present(lane) /\ DualRows(lane) = {}) =>
                IF DistinctDistances(lane) = {} THEN NotTightened(lane)
                ELSE IF SetMin(DistinctDistances(lane)) = 1
                THEN Tightened(lane, "SINGLE_LANE_I7_TOO_SIMILAR_HAMMING_1")
                ELSE IF SetMin(DistinctDistances(lane)) = 2
                THEN Tightened(lane, "SINGLE_LANE_I7_SIMILAR_HAMMING_2")
                ELSE NotTightened(lane)

\* C13 witness: a single-only lane of three rows, two of them with one
\* trimmed i7 once the longer is cut and the third at distance 1 of it, was
\* tightened for distance 1.
C13_Witness ==
    /\ ValidationDone
    /\ \E lane \in SheetLanes :
          /\ AllI7Present(lane) /\ DualRows(lane) = {}
          /\ Cardinality(InLane(lane)) = 3
          /\ Cardinality({Cut7(k) : k \in InLane(lane)}) = 2
          /\ \E k \in InLane(lane) : Cut7(k) # Sheet[k].i7
          /\ DistinctDistances(lane) = {1}
          /\ Tightened(lane, "SINGLE_LANE_I7_TOO_SIMILAR_HAMMING_1")

\* C14: the mismatch map has one entry per lane of the table and no other,
\* each 0 or 1; a lane has at most one WARN, and its entry is 0 exactly when
\* it has one.
C14_MismatchMap ==
    ValidationDone =>
        /\ DOMAIN ctx.lane_barcode_mismatches = SheetLanes
        /\ \A lane \in SheetLanes :
              /\ ctx.lane_barcode_mismatches[lane] \in {0, 1}
              /\ Cardinality(LaneProblems(lane, "WARN")) <= 1
              /\ ctx.lane_barcode_mismatches[lane] = 0
                    <=> Cardinality(LaneProblems(lane, "WARN")) = 1

\* C14 witness: of the two lanes of a table one was tightened with its one
\* WARN, the other has a row without i7 and keeps the entry 1 with no WARN.
C14_Witness ==
    /\ ValidationDone
    /\ SheetLanes = {1, 2}
    /\ DOMAIN ctx.lane_barcode_mismatches = {1, 2}
    /\ \E lane \in SheetLanes :
          /\ ctx.lane_barcode_mismatches[lane] = 0
          /\ Cardinality(LaneProblems(lane, "WARN")) = 1
          /\ ~AllI7Present(3 - lane)
          /\ ctx.lane_barcode_mismatches[3 - lane] = 1
          /\ LaneProblems(3 - lane, "WARN") = {}

\* the Problems of the barcode checks recorded for a lane, as positions in
\* ctx.problems and in their order
BarcodeProblems(lane) ==
    {j \in 1..Len(ctx.problems) :
        /\ ctx.problems[j].lane = lane
        /\ ctx.problems[j].code \notin {"SAMPLE_ID_INVALID", "SAMPLE_ID_DUPLICATE_IN_LANE",
                                        "SAMPLE_ID_PROJECT_COLLISION"}}
BarcodeReport(lane) ==
    SelectSeq(ctx.problems,
              LAMBDA p : /\ p.lane = lane
                         /\ p.code \notin {"SAMPLE_ID_INVALID", "SAMPLE_ID_DUPLICATE_IN_LANE",
                                           "SAMPLE_ID_PROJECT_COLLISION"})

\* C15: a lane with a row that has no i7 gets exactly one ERROR I7_MISSING
\* and no other barcode Problem, and keeps tolerance 1; every other lane gets
\* the barcode Problems and the tolerance it gets when validated alone.
C15_I7Missing ==
    ValidationDone =>
        \A lane \in SheetLanes :
            ~AllI7Present(lane) =>
                /\ Cardinality(WithCode(LaneProblems(lane, "ERROR"), "I7_MISSING")) = 1
                /\ BarcodeProblems(lane) = WithCode(LaneProblems(lane, "ERROR"), "I7_MISSING")
                /\ lane \in DOMAIN ctx.lane_barcode_mismatches
                /\ ctx.lane_barcode_mismatches[lane] = 1
                /\ \A other \in SheetLanes \ {lane} :
                      /\ BarcodeReport(other)
                            = validate_indexes_per_lane(RowsOfLane(Sheet, other)).problems
                      /\ other \in DOMAIN ctx.lane_barcode_mismatches
                      /\ ctx.lane_barcode_mismatches[other]
                            = validate_indexes_per_lane(RowsOfLane(Sheet, other)).lane_mm[other]

\* C15 witness: a lane of three rows, one without i7 and two dual rows with
\* one i7 and one i5, has the I7_MISSING ERROR as its only Problem and
\* tolerance 1.
C15_Witness ==
    /\ ValidationDone
    /\ \E lane \in SheetLanes :
          /\ \E k, l, n \in InLane(lane) :
                /\ Sheet[k].i7 = None
                /\ l # n
                /\ Sheet[l].i7 # None /\ Sheet[l].i7 = Sheet[n].i7
                /\ Sheet[l].i5 # None /\ Sheet[l].i5 = Sheet[n].i5
          /\ Cardinality(BarcodeProblems(lane)) = 1
          /\ \A j \in BarcodeProblems(lane) :
                /\ ctx.problems[j].code = "I7_MISSING"
                /\ ctx.problems[j].level = "ERROR"
                /\ Len(ctx.problems[j].listed) = 1
          /\ ctx.lane_barcode_mismatches[lane] = 1

\* the dual-index rows of the lane with the trimmed i7 and the trimmed i5 of
\* row k
SamePair(lane, k) ==
    {l \in DualRows(lane) : Cut7(l) = Cut7(k) /\ Cut5(l) = Cut5(k)}

\* the sample_ids of a set of rows, in table order
SampleIds(rows) == [j \in 1..Cardinality(rows) |-> Sheet[SortedInts(rows)[j]].sample_id]

\* C16: in a lane whose rows all have an i7, there is one ERROR
\* INDEX_DUPLICATE_IN_LANE per set of two or more dual-index rows with one
\* trimmed i7 and one trimmed i5, listing the rows of the set, and no other:
\* rows that share only the i7, or only the i5, cause none.
C16_IndexDuplicate ==
    ValidationDone =>
        \A lane \in SheetLanes :
            AllI7Present(lane) =>
                LET reported == WithCode(LaneProblems(lane, "ERROR"), "INDEX_DUPLICATE_IN_LANE")
                    repeated == {SamePair(lane, k) : k \in DualRows(lane)}
                                    \ {{k} : k \in DualRows(lane)}
                IN  /\ Cardinality(reported) = Cardinality(repeated)
                    /\ {ctx.problems[j].listed : j \in reported}
                          = {SampleIds(rows) : rows \in repeated}

\* C16 witness: three dual-index rows of a lane, two with one trimmed pair
\* once a longer i5 is cut and the third with their i7 and another i5, got one
\* ERROR INDEX_DUPLICATE_IN_LANE listing the two.
C16_Witness ==
    /\ ValidationDone
    /\ \E lane \in SheetLanes :
          /\ AllI7Present(lane)
          /\ Cardinality(DualRows(lane)) = 3
          /\ Cardinality({Cut7(k) : k \in DualRows(lane)}) = 1
          /\ \E k \in DualRows(lane) :
                /\ Cardinality(SamePair(lane, k)) = 2
                /\ \E l \in SamePair(lane, k) : Sheet[l].i5 # Sheet[k].i5
                /\ \E j \in WithCode(LaneProblems(lane, "ERROR"), "INDEX_DUPLICATE_IN_LANE") :
                      ctx.problems[j].listed = SampleIds(SamePair(lane, k))
          /\ Cardinality(WithCode(LaneProblems(lane, "ERROR"), "INDEX_DUPLICATE_IN_LANE")) = 1

\* the rows of the lane with the trimmed i7 of row k
SameI7(lane, k) == {l \in InLane(lane) : Cut7(l) = Cut7(k)}

\* C17: in a lane whose rows all have an i7, every single-index row whose
\* trimmed i7 is also the trimmed i7 of another row of the lane gets an ERROR
\* SINGLE_I7_DUPLICATE_IN_LANE listing the rows of the lane with that i7, and
\* there is no other such ERROR: none when the trimmed i7 of every single row
\* occurs once in the lane, whatever the other lanes hold.
C17_SingleI7Duplicate ==
    ValidationDone =>
        \A lane \in SheetLanes :
            AllI7Present(lane) =>
                LET reported == WithCode(LaneProblems(lane, "ERROR"),
                                         "SINGLE_I7_DUPLICATE_IN_LANE")
                    shared == {k \in SingleRows(lane) : SameI7(lane, k) # {k}}
                IN  /\ Cardinality(reported) = Cardinality(shared)
                    /\ {ctx.problems[j].listed : j \in reported}
                          = {SampleIds(SameI7(lane, k)) : k \in shared}

\* C17 witness: a single-index row and a dual-index row of a lane have one
\* trimmed i7 once the longer is cut, and a row of the other lane has it too:
\* the one ERROR SINGLE_I7_DUPLICATE_IN_LANE lists the two rows of the lane.
C17_Witness ==
    /\ ValidationDone
    /\ \E lane \in SheetLanes :
          /\ AllI7Present(lane)
          /\ \E k \in SingleRows(lane), l \in DualRows(lane) :
                /\ InLane(lane) = {k, l}
                /\ Sheet[k].i7 # Sheet[l].i7
                /\ Cut7(k) = Cut7(l)
                /\ \E n \in 1..Len(Sheet) : Sheet[n].lane # lane /\ Sheet[n].i7 = Cut7(k)
                /\ \A j \in WithCode(LaneProblems(lane, "ERROR"), "SINGLE_I7_DUPLICATE_IN_LANE") :
                      ctx.problems[j].listed = SampleIds({k, l})
          /\ Cardinality(WithCode(LaneProblems(lane, "ERROR"),
                                  "SINGLE_I7_DUPLICATE_IN_LANE")) = 1
          /\ \A j \in 1..Len(ctx.problems) :
                ctx.problems[j].code = "SINGLE_I7_DUPLICATE_IN_LANE"
                    => ctx.problems[j].lane = lane

\* the sample_ids of the table, the rows of a sample_id and the project_ids
\* it occurs with
SheetSampleIds == {Sheet[k].sample_id : k \in 1..Len(Sheet)}
RowsOfSample(sid) == {k \in 1..Len(Sheet) : Sheet[k].sample_id = sid}
ProjectsOfSample(sid) == {Sheet[k].project_id : k \in RowsOfSample(sid)}

\* the Problems with a code, as positions in ctx.problems
Coded(code) == {j \in 1..Len(ctx.problems) : ctx.problems[j].code = code}

\* C18: each sample_id that occurs with two or more project_ids anywhere in
\* the table gets exactly one ERROR SAMPLE_ID_PROJECT_COLLISION, without a
\* lane, listing all its project_ids; a sample_id with one project_id gets
\* none, in however many rows and lanes it occurs.
C18_ProjectCollision ==
    ValidationDone =>
        /\ \A j \in Coded("SAMPLE_ID_PROJECT_COLLISION") :
              /\ ctx.problems[j].level = "ERROR"
              /\ ctx.problems[j].lane = NoLane
              /\ ctx.problems[j].sample_id \in SheetSampleIds
        /\ \A sid \in SheetSampleIds :
              LET reported == {j \in Coded("SAMPLE_ID_PROJECT_COLLISION") :
                                  ctx.problems[j].sample_id = sid}
              IN  IF Cardinality(ProjectsOfSample(sid)) >= 2
                  THEN /\ Cardinality(reported) = 1
                       /\ \A j \in reported :
                             /\ Len(ctx.problems[j].listed)
                                   = Cardinality(ProjectsOfSample(sid))
                             /\ {ctx.problems[j].listed[i] :
                                    i \in 1..Len(ctx.problems[j].listed)}
                                   = ProjectsOfSample(sid)
                  ELSE reported = {}

\* C18 witness: a sample_id occurs once in lane 1 and once in lane 2 with two
\* project_ids, and another sample_id with one project_id: the only collision
\* ERROR is for the first and lists its two projects.
C18_Witness ==
    /\ ValidationDone
    /\ Cardinality(Coded("SAMPLE_ID_PROJECT_COLLISION")) = 1
    /\ \E sid, other \in SheetSampleIds :
          /\ Cardinality(RowsOfSample(sid)) = 2
          /\ {Sheet[k].lane : k \in RowsOfSample(sid)} = {1, 2}
          /\ Cardinality(ProjectsOfSample(sid)) = 2
          /\ other # sid
          /\ \A j \in Coded("SAMPLE_ID_PROJECT_COLLISION") :
                /\ ctx.problems[j].sample_id = sid
                /\ Len(ctx.problems[j].listed) = 2

\* the rows of a lane with a sample_id
RowsInLaneOfSample(lane, sid) == InLane(lane) \cap RowsOfSample(sid)

\* C19: a lane and a sample_id get an ERROR SAMPLE_ID_DUPLICATE_IN_LANE
\* exactly when the sample_id occurs in two or more rows of the lane, and then
\* exactly one; a sample_id that occurs once in each of several lanes gets
\* none.
C19_DuplicateInLane ==
    ValidationDone =>
        /\ \A j \in Coded("SAMPLE_ID_DUPLICATE_IN_LANE") :
              /\ ctx.problems[j].level = "ERROR"
              /\ ctx.problems[j].lane \in SheetLanes
              /\ ctx.problems[j].sample_id \in SheetSampleIds
        /\ \A lane \in SheetLanes, sid \in SheetSampleIds :
              Cardinality({j \in Coded("SAMPLE_ID_DUPLICATE_IN_LANE") :
                              /\ ctx.problems[j].lane = lane
                              /\ ctx.problems[j].sample_id = sid})
                  = IF Cardinality(RowsInLaneOfSample(lane, sid)) >= 2 THEN 1 ELSE 0

\* C19 witness: a table of three rows of one sample_id with one project_id,
\* two in one lane and one in the other, has one Problem: the duplicate ERROR
\* of the lane with the two rows.
C19_Witness ==
    /\ ValidationDone
    /\ Len(Sheet) = 3
    /\ Cardinality(SheetSampleIds) = 1
    /\ SheetLanes = {1, 2}
    /\ Len(ctx.problems) = 1
    /\ \E lane \in SheetLanes :
          /\ Cardinality(InLane(lane)) = 2
          /\ ctx.problems[1].code = "SAMPLE_ID_DUPLICATE_IN_LANE"
          /\ ctx.problems[1].lane = lane

(***************************************************************************)
(* merge_single_lookups / merge_pair_lookups called on a list of lookups   *)
(***************************************************************************)
MaxLookups == 3

\* the lookups a merge is given: each maps some of the IDs to one of two
\* values, sequences for merge_single_lookups and (i7, i5) pairs for
\* merge_pair_lookups
MergeInputs(values) ==
    UNION {[1..n -> UNION {[K -> values] : K \in SUBSET IDs}] : n \in 0..MaxLookups}

\* a merge called on its own: i7_maps holds the lookups in their order, and
\* i7_lookup will hold what the merge returns
InitMerge ==
    /\ pc = "merge_lookups"
    /\ state = RunState
    /\ i7_maps \in MergeInputs({<<"A", "C">>, <<"G", "T">>})
                   \cup MergeInputs({<<<<"A", "C">>, <<"G">>>>, <<<<"A", "C">>, <<"T">>>>})
    /\ i7_lookup = <<>>
    /\ result = Running
    /\ df = <<>>
    /\ out = <<>>
    /\ idx = 0
    /\ i5_lookup = <<>>
    /\ pair_lookup = [given |-> FALSE, map |-> <<>>]
    /\ problems = <<>>
    /\ consulted = {}
    /\ input = [status |-> "ok", columns |-> REQUIRED_CANONICAL_COLS, rows |-> <<>>]
    /\ i5_maps = <<>>
    /\ pair_maps = <<>>
    /\ dry_run = TRUE
    /\ ctx = NewContext
    /\ df_expanded = <<>>
    /\ output = NoTable
    /\ phases = <<>>

\* what the caller has once the merge returned or raised
MergeOutcome(r) ==
    /\ i7_lookup' = IF r.ok THEN r.v ELSE i7_lookup
    /\ result' = IF r.ok THEN Returned(0) ELSE Raised(r.err)

\* indexes.py 122-129 / 132-139: the merge of the lookups
Merge ==
    /\ pc = "merge_lookups"
    /\ MergeOutcome(merge_lookups(i7_maps))
    /\ pc' = "merged"
    /\ UNCHANGED <<df, out, idx, i5_lookup, pair_lookup, problems, consulted,
                   run_inputs, state, ctx, df_expanded, output, phases>>

SpecMerge == InitMerge /\ [][Merge]_vars

\* two of the lookups given to the merge map an ID to different values
SourcesDisagree ==
    \E a, b \in 1..Len(i7_maps) :
        \E id \in DOMAIN i7_maps[a] \cap DOMAIN i7_maps[b] :
            i7_maps[a][id] # i7_maps[b][id]

\* C20: the merge of a sequence of lookups raises IdCollision exactly when
\* two of them map one ID to different values; otherwise it returns a lookup
\* whose IDs are those of the sources and no other, each with the value the
\* sources give it.
C20_Merge ==
    pc = "merged" =>
        IF SourcesDisagree THEN result = Raised("IdCollision")
        ELSE /\ result = Returned(0)
             /\ DOMAIN i7_lookup = UNION {DOMAIN i7_maps[k] : k \in 1..Len(i7_maps)}
             /\ \A k \in 1..Len(i7_maps) :
                   \A id \in DOMAIN i7_maps[k] : i7_lookup[id] = i7_maps[k][id]

\* C20 witness: the first and the third of three lookups disagree on an ID
\* that the second does not have, while the first two agree on another ID; the
\* merge raised IdCollision.
C20_Witness ==
    /\ pc = "merged"
    /\ Len(i7_maps) = 3
    /\ \E id, other \in IDs :
          /\ id \in DOMAIN i7_maps[1] /\ id \notin DOMAIN i7_maps[2]
          /\ id \in DOMAIN i7_maps[3] /\ i7_maps[1][id] # i7_maps[3][id]
          /\ other \in DOMAIN i7_maps[1] \cap DOMAIN i7_maps[2]
          /\ i7_maps[1][other] = i7_maps[2][other]
    /\ result = Raised("IdCollision")

\* the lookups given to the merge, in the order p
Reordered(p) == [k \in 1..Len(i7_maps) |-> i7_maps[p[k]]]

\* the orders of the lookups given to the merge
Orders ==
    {p \in [1..Len(i7_maps) -> 1..Len(i7_maps)] :
        \A a, b \in 1..Len(i7_maps) : a # b => p[a] # p[b]}

\* C21: the merge of the same lookups in any other order fails when this one
\* failed and returns the same mapping when this one returned; a lookup merged
\* with itself gives that lookup.
C21_MergeOrder ==
    pc = "merged" =>
        /\ \A p \in Orders :
              IF result = Returned(0)
              THEN merge_lookups(Reordered(p)) = Ok(i7_lookup)
              ELSE /\ result = Raised("IdCollision")
                   /\ merge_lookups(Reordered(p)) = Raise("IdCollision")
        /\ \A k \in 1..Len(i7_maps) :
              merge_lookups(<<i7_maps[k], i7_maps[k]>>) = Ok(i7_maps[k])

\* C21 witness: three different lookups that share an ID and agree on it were
\* merged into a lookup of both IDs, and so they are in each of the six
\* orders.
C21_Witness ==
    /\ pc = "merged"
    /\ Len(i7_maps) = 3
    /\ Cardinality({i7_maps[k] : k \in 1..3}) = 3
    /\ \E id \in IDs : id \in DOMAIN i7_maps[1] \cap DOMAIN i7_maps[3]
    /\ Cardinality(Orders) = 6
    /\ result = Returned(0)
    /\ DOMAIN i7_lookup = IDs
    /\ \A p \in Orders : merge_lookups(Reordered(p)) = Ok(i7_lookup)

(***************************************************************************)
(* expand_lanes called on an input table                                   *)
(***************************************************************************)
MaxExpandRows == 3

\* the lane cells of the tables expand_lanes is called on: cells that list
\* lanes, blank and nan cells, cells of another format, cells with a repeat
LaneCells ==
    {<<"1">>, <<"8">>, <<"2", ",", "1">>, <<" ", "3", " ">>, <<"1", " ", "2">>,
     <<"4", ",", " ", "2", "\t", "1">>,
     NaN, <<>>, <<" ">>, <<"N", "a", "N">>,
     <<"9">>, <<"0">>, <<"1", ",">>, <<"1", "2">>, <<"1", "-", "3">>,
     <<"1", ",", "1">>, <<"2", " ", "1", ",", "2">>}

\* expand_lanes called on its own on a table of up to MaxExpandRows rows that
\* has the required columns; row k has the sample_id of its position
InitExpand ==
    /\ pc = "expand_lanes"
    /\ state = RunState
    /\ \E n \in 0..MaxExpandRows :
          \E c \in [1..n -> LaneCells] :
              input = GoodInput([k \in 1..n |->
                                    InputRow(c[k], <<"S", Digit(k)>>, <<"P">>,
                                             [i7 |-> NaN, i5 |-> NaN,
                                              i7_id |-> <<"A">>, i5_id |-> <<"A">>])])
    /\ ctx = [NewContext EXCEPT !.df_input = Table(input.rows)]
    /\ i7_maps = <<>>
    /\ i5_maps = <<>>
    /\ pair_maps = <<>>
    /\ dry_run = TRUE
    /\ df_expanded = <<>>
    /\ output = NoTable
    /\ result = Running
    /\ phases = <<>>
    /\ df = <<>>
    /\ out = <<>>
    /\ idx = 0
    /\ i7_lookup = <<>>
    /\ i5_lookup = <<>>
    /\ pair_lookup = [given |-> FALSE, map |-> <<>>]
    /\ problems = <<>>
    /\ consulted = {}

SpecExpand == InitExpand /\ [][RunExpandLanes]_vars

\* expand_lanes has returned or raised
ExpandDone == pc \in {"normalize_minimal", "raised"}

\* the table expand_lanes was called on, and the text of the lane cell of its
\* row k without the blanks around it
Source == ctx.df_input.rows
CellText(k) == Strip(ToStr(Source[k].lane))

\* the cell is empty or nan-like
CellEmpty(k) == CellText(k) = <<>> \/ Lower(CellText(k)) = <<"n", "a", "n">>

\* the cell is a list of digits 1-8 separated by commas and white space
CellWellFormed(k) ==
    /\ CellText(k) # <<>>
    /\ \A i \in 1..Len(CellText(k)) :
          \/ CellText(k)[i] \in {"1", "2", "3", "4", "5", "6", "7", "8"}
          \/ CellText(k)[i] \in {",", " ", "\t", "\n"}
    /\ \A i \in {1, Len(CellText(k))} :
          CellText(k)[i] \in {"1", "2", "3", "4", "5", "6", "7", "8"}
    /\ \A i \in 1..(Len(CellText(k)) - 1) :
          CellText(k)[i] \in {",", " ", "\t", "\n"}
              \/ CellText(k)[i + 1] \in {",", " ", "\t", "\n"}

\* the lane numbers a well-formed cell lists, in the order of its text
CellLanes(k) ==
    LET at == SortedInts({i \in 1..Len(CellText(k)) :
                             CellText(k)[i] \notin {",", " ", "\t", "\n"}})
    IN  [j \in 1..Len(at) |-> DigitVal(CellText(k)[at[j]])]

\* the cell lists a lane number twice
CellRepeats(k) ==
    \E i, j \in 1..Len(CellLanes(k)) : i # j /\ CellLanes(k)[i] = CellLanes(k)[j]

\* C22: when every lane cell is well-formed and without a repeat,
\* expand_lanes returns, for each source row in order, one row per lane
\* number of its cell in the order of the text, with that integer lane in
\* 1..8 and the other fields of the source row; the rows number the lane
\* numbers listed.
C22_ExpandRows ==
    (ExpandDone /\ \A k \in 1..Len(Source) : CellWellFormed(k) /\ ~CellRepeats(k)) =>
        /\ pc = "normalize_minimal"
        /\ df_expanded
              = Flatten([k \in 1..Len(Source) |->
                            [j \in 1..Len(CellLanes(k)) |->
                                [Source[k] EXCEPT !.lane = CellLanes(k)[j]]]])
        /\ \A i \in 1..Len(df_expanded) : df_expanded[i].lane \in 1..8

\* C22 witness: a table of three rows with cells of three, one and two lanes,
\* the first not in increasing order, was expanded to six rows.
C22_Witness ==
    /\ pc = "normalize_minimal"
    /\ Len(Source) = 3
    /\ CellLanes(1) = <<4, 2, 1>>
    /\ Len(CellLanes(2)) = 1
    /\ Len(CellLanes(3)) = 2
    /\ Len(df_expanded) = 6
    /\ [i \in 1..6 |-> df_expanded[i].sample_id]
          = <<Source[1].sample_id, Source[1].sample_id, Source[1].sample_id,
              Source[2].sample_id, Source[3].sample_id, Source[3].sample_id>>
    /\ Cardinality({Source[k].sample_id : k \in 1..3}) = 3
    /\ [i \in 1..3 |-> df_expanded[i].lane] = <<4, 2, 1>>

\* C23: expand_lanes raises LaneEmpty when a cell is empty or nan-like, else
\* LaneFormatInvalid when a cell is not a list of digits 1-8, else
\* LaneDuplicateInCell when a cell lists a lane twice, and then it returns no
\* row at all; else it returns.
C23_ExpandAllOrNothing ==
    ExpandDone =>
        IF \E k \in 1..Len(Source) : CellEmpty(k)
        THEN pc = "raised" /\ result = Raised("LaneEmpty") /\ df_expanded = <<>>
        ELSE IF \E k \in 1..Len(Source) : ~CellWellFormed(k)
        THEN pc = "raised" /\ result = Raised("LaneFormatInvalid") /\ df_expanded = <<>>
        ELSE IF \E k \in 1..Len(Source) : CellRepeats(k)
        THEN pc = "raised" /\ result = Raised("LaneDuplicateInCell") /\ df_expanded = <<>>
        ELSE pc = "normalize_minimal" /\ result = Running

\* C23 witness: the first row lists a lane twice, the second has a cell of
\* another format and the third an empty cell: LaneEmpty was raised and no row
\* was returned.
C23_Witness ==
    /\ pc = "raised"
    /\ Len(Source) = 3
    /\ CellWellFormed(1) /\ CellRepeats(1)
    /\ ~CellEmpty(2) /\ ~CellWellFormed(2)
    /\ CellEmpty(3)
    /\ result = Raised("LaneEmpty")
    /\ df_expanded = <<>>

(***************************************************************************)
(* normalize_seq called on a raw cell                                      *)
(***************************************************************************)
MaxRawLen == 5

\* normalize_seq called on its own: df holds the raw cell, None, NaN or a text
\* of up to MaxRawLen characters with blanks, tabs and letters of both cases
InitNormalize ==
    /\ pc = "normalize_seq"
    /\ state = RunState
    /\ \/ df \in {<<None>>, <<NaN>>}
       \/ \E n \in 0..MaxRawLen :
             \E s \in [1..n -> {" ", "\t", "n", "a", "o", "e", "N", "A"}] : df = <<s>>
    /\ out = <<>>
    /\ idx = 0
    /\ i7_lookup = <<>>
    /\ i5_lookup = <<>>
    /\ pair_lookup = [given |-> FALSE, map |-> <<>>]
    /\ problems = <<>>
    /\ consulted = {}
    /\ input = [status |-> "ok", columns |-> REQUIRED_CANONICAL_COLS, rows |-> <<>>]
    /\ i7_maps = <<>>
    /\ i5_maps = <<>>
    /\ pair_maps = <<>>
    /\ dry_run = TRUE
    /\ ctx = NewContext
    /\ df_expanded = <<>>
    /\ output = NoTable
    /\ result = Running
    /\ phases = <<>>

\* utils.py 24-33: out holds what normalize_seq returns for the cell
NormalizeCell ==
    /\ pc = "normalize_seq"
    /\ out' = <<normalize_seq(df[1])>>
    /\ pc' = "normalized"
    /\ UNCHANGED <<df, idx, i7_lookup, i5_lookup, pair_lookup, problems, consulted,
                   run_inputs, state, run_vars, phases>>

SpecNormalize == InitNormalize /\ [][NormalizeCell]_vars

\* C24: what normalize_seq returns is absent, or a text that is none of "",
\* "NAN", "NA", "NONE" and that normalize_seq returns unchanged; a raw value
\* whose text, trimmed and in upper case, is one of those tokens gives absent.
C24_NormalizeSeq ==
    pc = "normalized" =>
        /\ \/ out[1] = None
           \/ /\ out[1] \notin {<<>>, <<"N", "A", "N">>, <<"N", "A">>, <<"N", "O", "N", "E">>}
              /\ normalize_seq(out[1]) = out[1]
        /\ Upper(Strip(ToStr(df[1])))
                 \in {<<>>, <<"N", "A", "N">>, <<"N", "A">>, <<"N", "O", "N", "E">>}
              => out[1] = None

\* C24 witness: a text in lower case with blanks around it and a blank and a
\* tab inside was made a text without blanks that is returned unchanged.
C24_Witness ==
    /\ pc = "normalized"
    /\ df[1] \notin {None, NaN}
    /\ Len(df[1]) = 5
    /\ df[1][1] = " "
    /\ \E i \in 2..4 : df[1][i] = " " /\ df[1][i + 1] # " "
    /\ out[1] # None
    /\ Len(out[1]) = 3
    /\ \E i \in 1..3 : out[1][i] = "\t"
    /\ out[1] = Upper(out[1])
    /\ normalize_seq(out[1]) = out[1]

(***************************************************************************)
(* load_single_index_table called on a kit file                            *)
(***************************************************************************)
MaxKitRows == 3

\* load_single_index_table called on its own: i7_maps names one kit file of
\* up to MaxKitRows rows; the ID cells are texts, padded, blank or empty
\* (NaN once read), the sequence cells texts in either case or empty; the
\* file may be missing or lack the named columns
InitLoad ==
    /\ pc = "load_single_index_table"
    /\ state = RunState
    /\ \E n \in 0..MaxKitRows :
          \E rows \in [1..n -> [id : {<<"A">>, <<"B">>, <<" ", "A">>, <<" ">>, NaN},
                                seq : {<<"A", "C", "G">>, <<"a", "c", "g">>,
                                       <<"G", "T", "A">>, NaN}]] :
              \/ i7_maps = <<SingleMap(KitFile(rows))>>
              \/ /\ n = 0
                 /\ \E e, c \in BOOLEAN :
                       i7_maps = <<SingleMap([exists |-> e, columns |-> c, rows |-> rows])>>
    /\ output = NoTable
    /\ result = Running
    /\ i5_maps = <<>>
    /\ pair_maps = <<>>
    /\ dry_run = TRUE
    /\ input = [status |-> "ok", columns |-> REQUIRED_CANONICAL_COLS, rows |-> <<>>]
    /\ ctx = NewContext
    /\ df_expanded = <<>>
    /\ phases = <<>>
    /\ df = <<>>
    /\ out = <<>>
    /\ idx = 0
    /\ i7_lookup = <<>>
    /\ i5_lookup = <<>>
    /\ pair_lookup = [given |-> FALSE, map |-> <<>>]
    /\ problems = <<>>
    /\ consulted = {}

\* what the caller has once the load returned or raised
LoadOutcome(t) ==
    /\ output' = IF t.ok THEN Table(t.v) ELSE output
    /\ result' = IF t.ok THEN Returned(0) ELSE Raised(t.err)

\* indexes.py 14-66: the table of the file loaded
LoadTable ==
    /\ pc = "load_single_index_table"
    /\ LoadOutcome(load_single_index_table(i7_maps[1].file))
    /\ pc' = "loaded"
    /\ UNCHANGED <<df, out, idx, i7_lookup, i5_lookup, pair_lookup, problems, consulted,
                   run_inputs, state, ctx, df_expanded, phases>>

SpecLoad == InitLoad /\ [][LoadTable]_vars

\* the rows of the kit file, and those whose ID cell is not blank: neither
\* empty nor white space only
KitRows == i7_maps[1].file.rows
Retained ==
    {k \in 1..Len(KitRows) :
        ~is_missing(KitRows[k].id) /\ Strip(KitRows[k].id) # <<>>}

\* C25: the rows with a blank ID are dropped before any check; of the rows
\* kept, a missing sequence raises MissingSequence, else a repeated ID raises
\* DuplicateId, else a repeated sequence raises DuplicateSequence; else the
\* table returned has the rows kept, with IDs that are not blank and differ
\* and sequences that are not absent and differ.
C25_LoadedTable ==
    (pc = "loaded" /\ i7_maps[1].file.exists /\ i7_maps[1].file.columns) =>
        IF \E k \in Retained : normalize_seq(KitRows[k].seq) = None
        THEN result = Raised("MissingSequence")
        ELSE IF \E k, l \in Retained : k # l /\ Strip(KitRows[k].id) = Strip(KitRows[l].id)
        THEN result = Raised("DuplicateId")
        ELSE IF \E k, l \in Retained :
                    k # l /\ normalize_seq(KitRows[k].seq) = normalize_seq(KitRows[l].seq)
        THEN result = Raised("DuplicateSequence")
        ELSE /\ result = Returned(0)
             /\ Len(output.rows) = Cardinality(Retained)
             /\ \A j \in 1..Len(output.rows) :
                   /\ output.rows[j].Index_ID = Strip(KitRows[SortedInts(Retained)[j]].id)
                   /\ output.rows[j].Index_Seq
                         = normalize_seq(KitRows[SortedInts(Retained)[j]].seq)
                   /\ output.rows[j].Index_ID # <<>>
                   /\ output.rows[j].Index_Seq # None
             /\ \A i, j \in 1..Len(output.rows) :
                   i # j => /\ output.rows[i].Index_ID # output.rows[j].Index_ID
                            /\ output.rows[i].Index_Seq # output.rows[j].Index_Seq

\* C26: in a lane left at tolerance 1 without an ERROR, every two rows are at
\* distance 3 or more: in their trimmed i7 when one of them is single-index,
\* in max(d7, d5) when both are dual-index.
C26_ToleranceOneIsSafe ==
    ValidationDone =>
        \A lane \in SheetLanes :
            (/\ ctx.lane_barcode_mismatches[lane] = 1
             /\ LaneProblems(lane, "ERROR") = {}) =>
                \A k, l \in InLane(lane) :
                    k < l =>
                        IF k \in DualRows(lane) /\ l \in DualRows(lane)
                        THEN SetMax({Differ(Cut7(k), Cut7(l)),
                                     Differ(Cut5(k), Cut5(l))}) >= 3
                        ELSE Differ(Cut7(k), Cut7(l)) >= 3

\* C27: a dual-only lane in which some pair of rows has max(d7, d5) equal to 1
\* or 2 has tolerance 0 and a WARN, whatever the other pairs of the lane are.
C27_NearPairTightens ==
    ValidationDone =>
        \A lane \in SheetLanes :
            (/\ AllI7Present(lane) /\ SingleRows(lane) = {}
             /\ PairDistances(lane) \cap {1, 2} # {}) =>
                /\ ctx.lane_barcode_mismatches[lane] = 0
                /\ LaneProblems(lane, "WARN") # {}

\* the kind of a lane whose rows all have an i7, and the distance its
\* mismatch policy looks at
LaneKind(lane) ==
    IF SingleRows(lane) = {} THEN "dual-only"
    ELSE IF DualRows(lane) = {} THEN "single-only" ELSE "mixed"
KindDistance(lane) ==
    IF SingleRows(lane) = {} THEN SetMin(PairDistances(lane))
    ELSE IF DualRows(lane) = {} THEN SetMin(DistinctDistances(lane))
    ELSE SetMin(MixedDistances(lane))

\* what the resolver recorded is the head of ctx.problems, what the validator
\* recorded the rest
ValidatorProblems == (Len(problems) + 1)..Len(ctx.problems)

\* C28: over a run, two distance WARNs with one code are for lanes of one kind
\* and one distance, and no code the resolver recorded is a code the validator
\* recorded.
C28_CodesInjective ==
    PastValidation =>
        /\ \A i, j \in ValidatorProblems :
              (/\ ctx.problems[i].level = "WARN"
               /\ ctx.problems[j].level = "WARN"
               /\ ctx.problems[i].code = ctx.problems[j].code) =>
                  /\ LaneKind(ctx.problems[i].lane) = LaneKind(ctx.problems[j].lane)
                  /\ KindDistance(ctx.problems[i].lane) = KindDistance(ctx.problems[j].lane)
        /\ {problems[k].code : k \in 1..Len(problems)}
              \cap {ctx.problems[j].code : j \in ValidatorProblems} = {}

(***************************************************************************)
(* The lane planner: ui/actions.py                                         *)
(***************************************************************************)
\* The projects the planner imports, and the most samples of one import.
MaxSamples == 2
ProjectIds == {<<"P">>, <<"Q">>}
\* The most samples and the most lanes of one "Add selected".
MaxPicked == 2

\* lane_recompute_mock, line 41: a lane of more samples gets a WARNING
HighSampleCount == 40

RECURSIVE Decimal(_)
\* str(i) for i >= 0
Decimal(i) ==
    IF i < 10 THEN <<SubSeq(<<"0", "1", "2", "3", "4", "5", "6", "7", "8", "9">>,
                            i + 1, i + 1)[1]>>
    ELSE Decimal(i \div 10) \o Decimal(i % 10)

\* f"{i:0<width>d}": the decimal digits, zeros put before them up to width
ZeroPadded(i, width) ==
    LET d == Decimal(i)
    IN  [k \in 1..(IF Len(d) < width THEN width - Len(d) ELSE 0) |-> "0"] \o d

\* mock_import_project, lines 16-21: sample i of a project
Sample(project_id, i) ==
    [sample_id |-> project_id \o <<"_", "S">> \o ZeroPadded(i, 3),
     project_id |-> project_id,
     reads_m |-> 50,
     index_id |-> <<"I", "D", "X">> \o ZeroPadded(i, 2)]

\* actions.py 12-23: the project replaces the one of its id, and is selected
mock_import_project(s, project_id, n) ==
    [s EXCEPT !.projects = [q \in DOMAIN s.projects \cup {project_id} |->
                               IF q = project_id
                               THEN [project_id |-> project_id,
                                     samples |-> [i \in 1..n |-> Sample(project_id, i)]]
                               ELSE s.projects[q]],
              !.selected_project_id = project_id]

\* lane_recompute_mock, lines 30-35: the sample_ids met before, as often as met again
Dups(sample_ids) ==
    LET ks == SortedInts({k \in 1..Len(sample_ids) :
                             \E j \in 1..(k - 1) : sample_ids[j] = sample_ids[k]})
    IN  [j \in 1..Len(ks) |-> sample_ids[ks[j]]]

\* actions.py 26-48: status, headline and details of a lane from its sample_ids
lane_recompute_mock(lane) ==
    LET dups == Dups(lane.sample_ids)
    IN  IF dups # <<>>
        THEN [lane EXCEPT !.status = "error",
                          !.headline = "Duplicate sample_id",
                          !.details = [k \in 1..SetMin({5, Len(dups)}) |-> <<"dup", dups[k]>>]]
        ELSE IF Len(lane.sample_ids) > HighSampleCount
        THEN [lane EXCEPT !.status = "warning",
                          !.headline = "High sample count",
                          !.details = <<<<"samples", Len(lane.sample_ids)>>>>]
        ELSE [lane EXCEPT !.status = "ok", !.headline = "", !.details = <<>>]

\* add_samples_to_lanes, lines 61-64: the pairs <<sample_id, project_id>> of
\* the samples of the projects (sample_ids of different projects differ, so
\* no entry of the dict is overwritten)
sample_to_project(s) ==
    UNION {{<<s.projects[p].samples[k].sample_id, s.projects[p].project_id>> :
               k \in 1..Len(s.projects[p].samples)} : p \in DOMAIN s.projects}

\* the elements of a list
Elements(list) == {list[k] : k \in 1..Len(list)}

\* AddSample without the test "if sid in existing"
AddSampleMutNoSkip(lane, sid, to_project) ==
    LET pids == {e[2] : e \in {e \in to_project : e[1] = sid}}
    IN  [lane EXCEPT
            !.sample_ids = Append(@, sid),
            !.project_ids =
                IF pids # {} /\ (CHOOSE pid \in pids : TRUE) # <<>>
                            /\ (CHOOSE pid \in pids : TRUE) \notin Elements(@)
                THEN Append(@, CHOOSE pid \in pids : TRUE)
                ELSE @]

\* add_samples_to_lanes, lines 70-76: one sample_id of the list met for a
\* lane; existing is the set of the lane's sample_ids at that moment
AddSample(lane, sid, to_project) ==
    IF sid \in Elements(lane.sample_ids) THEN lane
    ELSE LET pids == {e[2] : e \in {e \in to_project : e[1] = sid}}
         IN  [lane EXCEPT
                 !.sample_ids = Append(@, sid),
                 !.project_ids =
                     IF pids # {} /\ (CHOOSE pid \in pids : TRUE) # <<>>
                                 /\ (CHOOSE pid \in pids : TRUE) \notin Elements(@)
                     THEN Append(@, CHOOSE pid \in pids : TRUE)
                     ELSE @]

RECURSIVE AddSamples(_, _, _, _)
\* add_samples_to_lanes, lines 69-76: the loop over sample_ids from position k
AddSamples(lane, sample_ids, k, to_project) ==
    IF k > Len(sample_ids) THEN lane
    ELSE AddSamples(AddSample(lane, sample_ids[k], to_project), sample_ids, k + 1,
                    to_project)

RECURSIVE AddToLanes(_, _, _, _, _)
\* add_samples_to_lanes, lines 66-78: the loop over lane_ids from position k
AddToLanes(lanes, sample_ids, lane_ids, k, to_project) ==
    IF k > Len(lane_ids) THEN lanes
    ELSE AddToLanes(
             [lanes EXCEPT ![lane_ids[k]] =
                 lane_recompute_mock(AddSamples(@, sample_ids, 1, to_project))],
             sample_ids, lane_ids, k + 1, to_project)

\* actions.py 51-78
add_samples_to_lanes(s, sample_ids, lane_ids) ==
    IF sample_ids = <<>> \/ lane_ids = <<>> THEN s
    ELSE [s EXCEPT !.lanes = AddToLanes(@, sample_ids, lane_ids, 1, sample_to_project(s))]

\* the list without the elements that are in a set, in its order
RECURSIVE Without(_, _)
Without(list, S) ==
    IF list = <<>> THEN <<>>
    ELSE (IF list[1] \in S THEN <<>> ELSE <<list[1]>>) \o Without(Tail(list), S)

\* actions.py 81-94: the sample_ids the project has now leave the lane
remove_project_from_lane(s, lane_id, project_id) ==
    LET lane == s.lanes[lane_id]
        sample_ids == IF project_id \in DOMAIN s.projects
                      THEN {s.projects[project_id].samples[k].sample_id :
                               k \in 1..Len(s.projects[project_id].samples)}
                      ELSE {}
    IN  IF project_id \notin Elements(lane.project_ids) THEN s
        ELSE [s EXCEPT !.lanes[lane_id] =
                 lane_recompute_mock(
                     [lane EXCEPT !.sample_ids = Without(@, sample_ids),
                                  !.project_ids = Without(@, {project_id})])]

\* actions.py 97-101
clear_lane(s, lane_id) ==
    [s EXCEPT !.lanes[lane_id] =
        lane_recompute_mock([@ EXCEPT !.sample_ids = <<>>, !.project_ids = <<>>])]

\* actions.py 104-107
validate_full_mock(s) ==
    [s EXCEPT !.lanes = [lid \in DOMAIN @ |-> lane_recompute_mock(@[lid])]]

\* actions.py 110-113
has_any_data(s) ==
    IF DOMAIN s.projects = {} THEN FALSE
    ELSE \E lid \in DOMAIN s.lanes : Len(s.lanes[lid].sample_ids) > 0

\* actions.py 115-118
can_export(s) ==
    IF ~has_any_data(s) THEN FALSE
    ELSE \A lid \in DOMAIN s.lanes : s.lanes[lid].status # "error"

\* The planner open on a fresh plan
InitPlan ==
    /\ pc = "plan"
    /\ state = RunState
    /\ df = <<>>
    /\ out = <<>>
    /\ idx = 0
    /\ i7_lookup = <<>>
    /\ i5_lookup = <<>>
    /\ pair_lookup = [given |-> FALSE, map |-> <<>>]
    /\ problems = <<>>
    /\ consulted = {}
    /\ input = [status |-> "ok", columns |-> REQUIRED_CANONICAL_COLS, rows |-> <<>>]
    /\ i7_maps = <<>>
    /\ i5_maps = <<>>
    /\ pair_maps = <<>>
    /\ dry_run = TRUE
    /\ ctx = NewContext
    /\ df_expanded = <<>>
    /\ output = NoTable
    /\ result = Running
    /\ phases = <<>>

\* what is not the planner's
run_state == <<resolve_vars, run_inputs, run_vars, phases>>

\* the sample_ids the project table can show: those of the projects imported
Shown == {e[1] : e \in sample_to_project(state)}

\* views.py 88: "Import" of a project id with a number of samples
ImportProject ==
    \E project_id \in ProjectIds, n \in 0..MaxSamples :
        /\ pc = "plan"
        /\ state' = mock_import_project(state, project_id, n)
        /\ UNCHANGED run_state

\* views.py 302: "Add selected", the samples and the lanes picked in any order,
\* none, one or several, one possibly twice
AddSelected ==
    \E ns, nl \in 0..MaxPicked :
        \E sample_ids \in [1..ns -> Shown], lane_ids \in [1..nl -> DOMAIN state.lanes] :
            /\ pc = "plan"
            /\ state' = add_samples_to_lanes(state, sample_ids, lane_ids)
            /\ UNCHANGED run_state

\* views.py 361: a project taken from a lane
RemoveProject ==
    \E lane_id \in DOMAIN state.lanes, project_id \in ProjectIds :
        /\ pc = "plan"
        /\ state' = remove_project_from_lane(state, lane_id, project_id)
        /\ UNCHANGED run_state

\* views.py 373: a lane cleared
ClearLane ==
    \E lane_id \in DOMAIN state.lanes :
        /\ pc = "plan"
        /\ state' = clear_lane(state, lane_id)
        /\ UNCHANGED run_state

\* views.py 151, 157: "Validate" and "Export" recompute every lane
ValidateFull ==
    /\ pc = "plan"
    /\ state' = validate_full_mock(state)
    /\ UNCHANGED run_state

NextPlan == ImportProject \/ AddSelected \/ RemoveProject \/ ClearLane \/ ValidateFull

SpecPlan == InitPlan /\ [][NextPlan]_vars

\* the planner's lanes
PlanLanes == {state.lanes[lid] : lid \in DOMAIN state.lanes}

\* C29: in every state of the planner no lane lists a sample_id twice, no lane
\* has the status ERROR, and can_export is has_any_data.
C29_NoRepeatedSample ==
    pc = "plan" =>
        /\ \A lane \in PlanLanes :
              /\ Cardinality(Elements(lane.sample_ids)) = Len(lane.sample_ids)
              /\ lane.status # "error"
        /\ can_export(state) = has_any_data(state)

\* C29 witness: a lane holds samples of two projects, three or more, so samples
\* were added to a lane that had some already, and the plan can be exported
C29_Witness ==
    /\ pc = "plan"
    /\ \E lane \in PlanLanes :
          /\ Len(lane.sample_ids) >= 3
          /\ Len(lane.project_ids) = 2
    /\ has_any_data(state)
    /\ can_export(state)

\* the project a sample_id was made for: the sample is one an import of that
\* project makes
MadeFor(sid) ==
    {p \in ProjectIds : \E i \in 1..MaxSamples : Sample(p, i).sample_id = sid}

\* C30: in every state of the planner the projects a lane lists are the
\* projects its samples were made for; so no sample of a project stays in a
\* lane the project was removed from.
C30_ProjectsOfLane ==
    pc = "plan" =>
        \A lane \in PlanLanes :
            Elements(lane.project_ids) = UNION {MadeFor(sid) : sid \in Elements(lane.sample_ids)}

====
